---- MODULE Spec2Model ----
(***************************************************************************)
(* A model of yap, a peer-to-peer terminal chat over datagrams: the packet *)
(* transport (transport.listen / prepare / verifyAndDecrypt / reject), the *)
(* membership table of a session and the session orchestrator              *)
(* (start, submit, handleIncoming, contactPeer, forwardRaw).               *)
(*                                                                         *)
(* Strings of the program are modelled by values that keep what the code   *)
(* inspects: an address string is a record [ip, port] (NoAddr is the empty *)
(* string), a body / cipher / nonce string is a record tagged with its     *)
(* format ("text", "json", "b64"), a datagram's bytes are the JSON         *)
(* encoding of an envelope.                                                *)
(***************************************************************************)
EXTENDS Integers, Sequences, FiniteSets, TLC

VARIABLES
    sess,    \* sess[n]: the session object of node n (its fields, see newSession)
    net,     \* datagrams written to a socket and not yet read: a bag, datagram -> count
    tasks,   \* tasks[n]: handler goroutines spawned by n's read loop, not yet run
    chats,   \* the chat lines submitted so far by the users
    last     \* the operation that produced this state, with what it wrote and emitted

vars == <<sess, net, tasks, chats, last>>

----------------------------------------------------------------------------
(* Bounds of the model *)

\* the users submit at most this many chat lines in a behaviour
MaxChats == 1

\* a host outside the deployment sends at most this many datagrams
MaxInjected == 1

\* the users type /switch at most this many times in a behaviour
MaxSwitches == 1

\* the reads of the sockets fail at most this many times in a behaviour
MaxReadErrors == 1
MaxKnocks == 2
MaxMarks == 2
MaxWaves == 2

----------------------------------------------------------------------------
(* Program constants *)

\* capacity of the event channel, make(chan Message, 128)
EventCap == 128

Nodes == {"A", "B", "C"}

\* Only({ e : v \in {d} }) is e with v standing for the value of d
Only(S) == CHOOSE x \in S : TRUE

----------------------------------------------------------------------------
(* Strings: addresses *)

\* the empty address string
NoAddr == [ip |-> "", port |-> 0]

\* netip.ParseAddrPort succeeds on "<ip>:<port>"
ParsesAddrPort(a) == a.ip \notin {"", "?"} /\ a.port >= 0

\* netip.ParseAddr succeeds on a bare "<ip>" (a string without a port part
\* has a negative port here)
ParsesAddr(a) == a.ip \notin {"", "?"} /\ a.port < 0

IsUnspecified(ip) == ip = "0.0.0.0"

IsLoopback(ip) == ip = "127.0.0.1"

\* the order of sort.Strings / sort.Slice on the canonical address strings
\* used here (they differ in the port, or in the first character of the IP)
IPRank(ip) == CASE ip = "" -> 0
                [] ip = "0.0.0.0" -> 1
                [] ip = "10.0.0.2" -> 2
                [] ip = "127.0.0.1" -> 3
                [] OTHER -> 4

AddrLeq(a, b) == \/ IPRank(a.ip) < IPRank(b.ip)
                 \/ IPRank(a.ip) = IPRank(b.ip) /\ a.port <= b.port

RECURSIVE SortAddrs(_)
SortAddrs(S) ==
    IF S = {} THEN <<>>
    ELSE Only({ <<m>> \o SortAddrs(S \ {m}) :
                  m \in {CHOOSE x \in S : \A y \in S : AddrLeq(x, y)} })

\* normalizeAddr canonicalises a possibly incomplete advertised address
normalizeAddr(advertised, fallback) ==
    LET adv == advertised
        fb  == fallback
    IN  IF adv # NoAddr /\ ParsesAddrPort(adv)
        THEN IF IsUnspecified(adv.ip) /\ fb # NoAddr
                /\ ParsesAddrPort(fb) /\ ~IsUnspecified(fb.ip)
             THEN [addr |-> [ip |-> fb.ip, port |-> adv.port], ok |-> TRUE]
             ELSE [addr |-> adv, ok |-> TRUE]
        ELSE IF fb # NoAddr /\ ParsesAddrPort(fb)
        THEN IF adv # NoAddr /\ ParsesAddr(adv)
             THEN [addr |-> [ip |-> adv.ip, port |-> fb.port], ok |-> TRUE]
             ELSE [addr |-> fb, ok |-> TRUE]
        ELSE IF adv # NoAddr THEN [addr |-> adv, ok |-> FALSE]
        ELSE IF fb # NoAddr THEN [addr |-> fb, ok |-> FALSE]
        ELSE [addr |-> NoAddr, ok |-> FALSE]

\* addr, ok := normalizeAddr(raw, raw); if !ok { addr = strings.TrimSpace(raw) }
canonKey(raw) ==
    Only({ IF nz.ok THEN nz.addr ELSE raw : nz \in {normalizeAddr(raw, raw)} })

\* addrPortFromNet: the AddrPort of a socket address, NoAddr when there is none
addrPortFromNet(addr) ==
    IF addr # NoAddr /\ ParsesAddrPort(addr) THEN addr ELSE NoAddr

\* canonicalNetAddr: the canonical string of a socket address
canonicalNetAddr(addr) ==
    Only({ IF ap # NoAddr THEN ap ELSE addr : ap \in {addrPortFromNet(addr)} })

\* resolveAddr / net.ResolveUDPAddr on a literal "<ip>:<port>"
resolveAddr(raw) ==
    IF raw # NoAddr /\ ParsesAddrPort(raw)
    THEN [ok |-> TRUE, addr |-> raw]
    ELSE [ok |-> FALSE, addr |-> NoAddr]

----------------------------------------------------------------------------
(* Strings: bodies, ciphertexts, envelopes *)

Text(t) == [fmt |-> "text", text |-> t]

EmptyStr == Text("")

\* a text of white space only
Blank == Text(" ")

\* strings.TrimSpace: white space alone trims to the empty string
TrimSpace(body) == IF body = Blank THEN EmptyStr ELSE body

\* base64.StdEncoding.EncodeToString / DecodeString
B64Encode(bytes) == [fmt |-> "b64", data |-> bytes]

B64Decode(str) ==
    IF str = EmptyStr THEN [ok |-> TRUE, data |-> EmptyStr]
    ELSE IF str.fmt = "b64" THEN [ok |-> TRUE, data |-> str.data]
    ELSE [ok |-> FALSE, data |-> EmptyStr]

\* no cipher configured (a nil packetCipher)
NoKey == ""

\* AES-GCM under the key derived from a secret: Seal and Open
Encrypt(key, nonce, plain) == [key |-> key, nonce |-> nonce, plain |-> plain]

\* an Open that does not authenticate the key
DecryptAnyKey(key, nonce, ciphertext) ==
    IF DOMAIN ciphertext = {"key", "nonce", "plain"} /\ ciphertext.nonce = nonce
    THEN [ok |-> TRUE, plain |-> ciphertext.plain]
    ELSE [ok |-> FALSE, plain |-> EmptyStr]

Decrypt(key, nonce, ciphertext) ==
    IF DOMAIN ciphertext = {"key", "nonce", "plain"}
       /\ ciphertext.key = key /\ ciphertext.nonce = nonce
    THEN [ok |-> TRUE, plain |-> ciphertext.plain]
    ELSE [ok |-> FALSE, plain |-> EmptyStr]

\* type Message (the timestamp is not modelled)
Message(id, from, kind, body) ==
    [id |-> id, from |-> from, kind |-> kind, body |-> body,
     cipher |-> EmptyStr, nonce |-> EmptyStr]

NoId == <<"", 0>>

NoMsg == Message(NoId, "", "", EmptyStr)

\* no bytes
NoData == [fmt |-> "none"]

\* json.Marshal(msg) and json.Unmarshal(data, &msg)
Marshal(msg) == [fmt |-> "json", msg |-> msg]

Unmarshal(data) ==
    IF data.fmt = "json" /\ "msg" \in DOMAIN data
    THEN [ok |-> TRUE, msg |-> data.msg]
    ELSE [ok |-> FALSE, msg |-> NoMsg]

\* type memberInfo
memberInfo(addr, name) == [addr |-> addr, name |-> name]

\* json.Marshal of a joinPayload / peersPayload, and json.Unmarshal into them:
\* a JSON object without "member" decodes into a joinPayload with a zero member
MarshalJoin(member, peers) == [fmt |-> "json", member |-> member, peers |-> peers]

MarshalPeers(peers) == [fmt |-> "json", peers |-> peers]

UnmarshalJoin(body) ==
    IF body.fmt = "json" /\ "peers" \in DOMAIN body
    THEN [ok |-> TRUE,
          member |-> IF "member" \in DOMAIN body THEN body.member
                     ELSE memberInfo(NoAddr, ""),
          peers |-> body.peers]
    ELSE [ok |-> FALSE, member |-> memberInfo(NoAddr, ""), peers |-> <<>>]

UnmarshalPeers(body) ==
    IF body.fmt = "json" /\ "peers" \in DOMAIN body
    THEN [ok |-> TRUE, peers |-> body.peers]
    ELSE [ok |-> FALSE, peers |-> <<>>]

----------------------------------------------------------------------------
(* Event queue *)

\* emit queues a message on the event channel; a full channel loses its
\* oldest message, a closed session emits nothing
emit(s, msg) ==
    IF s.closed THEN s
    ELSE [s EXCEPT !.events = Append(IF Len(@) < EventCap THEN @ ELSE Tail(@), msg),
                   !.emitted = Append(@, msg)]

\* emitSystem emits a system notification
emitSystem(s, text) == emit(s, Message(NoId, "", "system", Text(text)))

\* emit as the steps of a task that runs next to other tasks. A task is the
\* read loop or the task of the user interface; calls[task] tells where the
\* task is in emit, and with which message
Call(pc, msg) == [pc |-> pc, msg |-> msg]

Idle == Call("idle", NoMsg)

\* the task enters emit
emitCall(s, task, msg) == [s EXCEPT !.calls[task] = Call("check", msg)]

\* the task leaves emit
emitReturn(s, task) == [s EXCEPT !.calls[task] = Idle]

\* a panic that leaves emit ends the program
unrecovered(s, task) == [s EXCEPT !.crashed = TRUE, !.calls[task] = Idle]

\* defer func() { _ = recover() }(): a panic in emit is swallowed
recovered(s, task) == emitReturn([s EXCEPT !.swallowed = TRUE], task)

\* s.events <- msg, chosen by a select: a send on the closed channel panics
sendEvent(s, task) ==
    IF s.evClosed THEN recovered(s, task)
    ELSE emitReturn([s EXCEPT !.events = Append(@, s.calls[task].msg),
                              !.emitted = Append(@, s.calls[task].msg)],
                    task)

\* the first select of emit polls the stop signal
emitCheck(s, task) ==
    IF s.closed THEN emitReturn(s, task)
    ELSE [s EXCEPT !.calls[task].pc = "send"]

\* the second select of emit: send if the channel takes the message now
emitSend(s, task) ==
    IF s.evClosed \/ Len(s.events) < EventCap THEN sendEvent(s, task)
    ELSE [s EXCEPT !.calls[task].pc = "drain"]

\* the cases of the third select of emit that can proceed: receive the
\* oldest event, or the stop signal
readyDrain(s) ==
    (IF s.events # <<>> \/ s.evClosed THEN {"events"} ELSE {})
       \cup (IF s.closed THEN {"closed"} ELSE {})

\* the third select of emit with the case that the runtime chose
emitDrain(s, task, case) ==
    IF case = "closed" THEN emitReturn(s, task)
    ELSE [s EXCEPT !.events = IF @ = <<>> THEN @ ELSE Tail(@),
                   !.calls[task].pc = "final"]

\* the cases of the last select of emit that can proceed: send, or the stop
\* signal
readyFinal(s) ==
    (IF s.evClosed \/ Len(s.events) < EventCap THEN {"events"} ELSE {})
       \cup (IF s.closed THEN {"closed"} ELSE {})

\* the last select of emit with the case that the runtime chose
emitFinal(s, task, case) ==
    IF case = "closed" THEN emitReturn(s, task) ELSE sendEvent(s, task)

\* the cases among which the task in emit goes on, none when it is blocked
readyCases(s, task) ==
    CASE s.calls[task].pc = "drain" -> readyDrain(s)
      [] s.calls[task].pc = "final" -> readyFinal(s)
      [] s.calls[task].pc \in {"check", "send"} -> {"go"}
      [] OTHER -> {}

\* one step of the task in emit
emitStep(s, task, case) ==
    CASE s.calls[task].pc = "check" -> emitCheck(s, task)
      [] s.calls[task].pc = "send" -> emitSend(s, task)
      [] s.calls[task].pc = "drain" -> emitDrain(s, task, case)
      [] OTHER -> emitFinal(s, task, case)

----------------------------------------------------------------------------
(* Membership *)

\* type member (LastSeen is not modelled); the zero status is statusPending
member(addr, name, status, endpoint) ==
    [addr |-> addr, name |-> name, status |-> status, endpoint |-> endpoint]

Put(m, k, v) == [x \in DOMAIN m \cup {k} |-> IF x = k THEN v ELSE m[x]]

\* the record stored under a key, a zero member when there is none
recordOf(s, addr) ==
    IF addr \in DOMAIN s.members THEN s.members[addr]
    ELSE member(addr, "", "Pending", NoAddr)

\* setLocalAddrLocked stores the local address and (re)creates the local record
setLocalAddrLocked(s, addr) ==
    Only({ [s EXCEPT
              !.localAddr = canon,
              !.localIP   = IF ParsesAddrPort(canon) THEN canon.ip ELSE "",
              !.localPort = IF ParsesAddrPort(canon) THEN canon.port ELSE 0,
              !.members   =
                  IF canon = NoAddr THEN @
                  ELSE Put(@, canon,
                           [recordOf(s, canon) EXCEPT
                              !.name = s.cfgName, !.status = "Active",
                              !.endpoint = IF ParsesAddrPort(canon) THEN canon ELSE @])]
           : canon \in {canonKey(addr)} })

\* resetMembership empties the table and re-seeds the local entry
resetMembership(s, localAddr) ==
    Only({ setLocalAddrLocked(empty, localAddr) :
             empty \in {[s EXCEPT !.members = <<>>]} })

\* isLocal reports whether the address denotes this session
isLocal(s, raw) ==
    \E addr \in {canonKey(raw)} :
        IF addr = NoAddr \/ s.localAddr = NoAddr THEN FALSE
        ELSE IF addr = s.localAddr THEN TRUE
        ELSE IF ~ParsesAddrPort(addr) THEN FALSE
        ELSE IF s.localPort # 0 /\ addr.port # s.localPort THEN FALSE
        ELSE IF s.localIP = "" \/ IsUnspecified(s.localIP) THEN TRUE
        ELSE IF addr.ip = s.localIP THEN TRUE
        ELSE IF IsLoopback(s.localIP) /\ IsLoopback(addr.ip) THEN TRUE
        ELSE FALSE

\* a hint that is recorded whatever its address
addPendingMemberAnyone(s, raw) ==
    Only({ IF addr \notin DOMAIN s.members
           THEN [s |-> [s EXCEPT !.members =
                            Put(@, addr, member(addr, "", "Pending", NoAddr))],
                 changed |-> TRUE]
           ELSE IF s.members[addr].status # "Pending"
           THEN [s |-> [s EXCEPT !.members[addr].status = "Pending"],
                 changed |-> TRUE]
           ELSE [s |-> s, changed |-> FALSE]
           : addr \in {canonKey(raw)} })

\* addPendingMember records a member hint in the pending state
addPendingMember(s, raw) ==
    Only({ IF local THEN [s |-> s, changed |-> FALSE]
           ELSE IF addr \notin DOMAIN s.members
           THEN [s |-> [s EXCEPT !.members =
                            Put(@, addr, member(addr, "", "Pending", NoAddr))],
                 changed |-> TRUE]
           ELSE IF s.members[addr].status # "Pending"
           THEN [s |-> [s EXCEPT !.members[addr].status = "Pending"],
                 changed |-> TRUE]
           ELSE [s |-> s, changed |-> FALSE]
           : addr \in {canonKey(raw)}, local \in {isLocal(s, raw)} })

\* a table that records the member but leaves it pending
markMemberActiveAsPending(s, raw, name) == addPendingMember(s, raw)

\* a transition into the active set that always reports a change
markMemberActiveAlways(s, raw, name) ==
    Only({ IF local THEN [s |-> s, changed |-> FALSE]
           ELSE [s |-> [s EXCEPT !.members =
                          Put(@, addr,
                              [recordOf(s, addr) EXCEPT
                                 !.addr = addr,
                                 !.endpoint = IF ParsesAddrPort(addr) THEN addr ELSE @,
                                 !.status = "Active",
                                 !.name = IF name # "" THEN name ELSE @])],
                 changed |-> TRUE]
           : addr \in {canonKey(raw)}, local \in {isLocal(s, raw)} })

\* markMemberActive moves a member into the active set
markMemberActive(s, raw, name) ==
    Only({ IF local THEN [s |-> s, changed |-> FALSE]
           ELSE [s |-> [s EXCEPT !.members =
                          Put(@, addr,
                              [recordOf(s, addr) EXCEPT
                                 !.addr = addr,
                                 !.endpoint = IF ParsesAddrPort(addr) THEN addr ELSE @,
                                 !.status = "Active",
                                 !.name = IF name # "" THEN name ELSE @])],
                 changed |-> recordOf(s, addr).status # "Active"]
           : addr \in {canonKey(raw)}, local \in {isLocal(s, raw)} })

\* setMemberEndpoint caches the last reachable endpoint of a member
setMemberEndpoint(s, addr, ap) ==
    IF ap = NoAddr \/ addr = NoAddr THEN s
    ELSE [s EXCEPT !.members =
            Put(@, addr, [recordOf(s, addr) EXCEPT !.addr = addr, !.endpoint = ap])]

\* markMemberFailed marks a member pending after a delivery failure
markMemberFailed(s, raw) ==
    Only({ IF local \/ addr \notin DOMAIN s.members
           THEN [s |-> s, changed |-> FALSE]
           ELSE [s |-> [s EXCEPT !.members[addr].status = "Pending",
                                 !.members[addr].endpoint = NoAddr],
                 changed |-> TRUE]
           : addr \in {canonKey(raw)}, local \in {isLocal(s, raw)} })

\* removeMember deletes a member from the table
removeMember(s, raw) ==
    Only({ IF local \/ addr \notin DOMAIN s.members
           THEN [s |-> s, changed |-> FALSE]
           ELSE [s |-> [s EXCEPT !.members =
                            [x \in DOMAIN s.members \ {addr} |-> s.members[x]]],
                 changed |-> TRUE]
           : addr \in {canonKey(raw)}, local \in {isLocal(s, raw)} })

\* hasMember reports whether the member is known to the session
hasMember(s, raw) ==
    ~isLocal(s, raw) /\ canonKey(raw) \in DOMAIN s.members

\* the active members with a cached endpoint, the local entry among them
activeEndpointsLocal(s, exclude) ==
    { [key |-> k, ap |-> s.members[k].endpoint] :
        k \in { x \in DOMAIN s.members :
                  /\ s.members[x].status = "Active"
                  /\ x # exclude
                  /\ s.members[x].endpoint # NoAddr } }

\* the active members with a cached endpoint, nobody excluded but the local entry
activeEndpointsAll(s, exclude) ==
    { [key |-> k, ap |-> s.members[k].endpoint] :
        k \in { x \in DOMAIN s.members :
                  /\ s.members[x].status = "Active"
                  /\ x # s.localAddr
                  /\ s.members[x].endpoint # NoAddr } }

\* activeEndpoints: the active members with a cached endpoint, without the
\* excluded key and the local entry
activeEndpoints(s, exclude) ==
    { [key |-> k, ap |-> s.members[k].endpoint] :
        k \in { x \in DOMAIN s.members :
                  /\ s.members[x].status = "Active"
                  /\ x # exclude /\ x # s.localAddr
                  /\ s.members[x].endpoint # NoAddr } }

\* activeInfos: the active members as sorted Info payloads, without the
\* excluded address and the local entry
activeInfos(s, exclude) ==
    Only({ [i \in 1..Len(keys) |->
               memberInfo(s.members[keys[i]].addr, s.members[keys[i]].name)]
           : keys \in {SortAddrs({ k \in DOMAIN s.members :
                                     /\ s.members[k].status = "Active"
                                     /\ s.members[k].addr # exclude
                                     /\ s.members[k].addr # s.localAddr })} })

\* localInfo builds the Info payload of the local participant
localInfo(s) == memberInfo(s.localAddr, s.cfgName)

\* buildJoinPayloadData / buildJoinPayload: the join body of this session
buildJoinPayload(s) == MarshalJoin(localInfo(s), activeInfos(s, NoAddr))

\* a reply that lists nobody
buildPeersPayloadDataEmpty(s, exclude) == MarshalPeers(<<>>)

\* buildPeersPayloadData: the peer list without the given address
buildPeersPayloadData(s, exclude) == MarshalPeers(activeInfos(s, exclude))

----------------------------------------------------------------------------
(* Transport: outbound *)

\* the source address a receiver observes for a datagram written on a socket
\* bound to conn (all nodes run on one host)
SourceOf(conn) ==
    IF IsUnspecified(conn.ip) THEN [conn EXCEPT !.ip = "127.0.0.1"] ELSE conn

Datagram(src, dst, data) == [src |-> src, dst |-> dst, data |-> data]

\* newMessageID: 12 random bytes, modelled as a value no other call returns
newMessageID(s) == <<s.self, s.idc + 1>>

\* an envelope that keeps its body next to the ciphertext
envelopeBoth(cipher, id, name, kind, body) ==
    IF cipher # NoKey
    THEN [Message(id, name, kind, body) EXCEPT
            !.cipher = B64Encode(Encrypt(cipher, id, body)),
            !.nonce  = B64Encode(id)]
    ELSE Message(id, name, kind, body)

\* the envelope of prepare: encrypted exactly when a cipher is configured
envelope(cipher, id, name, kind, body) ==
    IF cipher # NoKey
    THEN [Message(id, name, kind, EmptyStr) EXCEPT
            !.cipher = B64Encode(Encrypt(cipher, id, body)),
            !.nonce  = B64Encode(id)]
    ELSE Message(id, name, kind, body)

\* a prepare that leaves the id of the outbound message out of the seen-set
prepareUnseen(s, name, kind, body) ==
    Only({ [s   |-> [s EXCEPT !.idc = @ + 1],
            msg |-> msg,
            raw |-> Marshal(msg)]
           : msg \in {envelope(s.cipher, newMessageID(s), name, kind, body)} })

\* prepare assembles, encrypts and marshals an outbound message and records
\* its id in the seen-set
prepare(s, name, kind, body) ==
    Only({ [s   |-> [s EXCEPT !.idc = @ + 1, !.seen = @ \cup {msg.id}],
            msg |-> msg,
            raw |-> Marshal(msg)]
           : msg \in {envelope(s.cipher, newMessageID(s), name, kind, body)} })

\* a write that a closed socket would not refuse
sendRawClosed(s, addr, data) ==
    IF addr \in s.unreach
    THEN [s |-> [s EXCEPT !.failed = Append(@, addr)], ok |-> FALSE]
    ELSE [s  |-> [s EXCEPT !.sent = Append(@, Datagram(SourceOf(s.conn), addr, data))],
          ok |-> TRUE]

\* sendRaw writes one datagram; the write fails for an unreachable address
\* and on a closed socket
sendRaw(s, addr, data) ==
    IF addr \in s.unreach \/ s.sockClosed
    THEN [s |-> [s EXCEPT !.failed = Append(@, addr)], ok |-> FALSE]
    ELSE [s  |-> [s EXCEPT !.sent = Append(@, Datagram(SourceOf(s.conn), addr, data))],
          ok |-> TRUE]

\* a rejection that builds the error envelope and writes nothing
rejectSilently(s, addr, reason) ==
    [s |-> [s EXCEPT !.idc = @ + 1],
     msg |-> Message(newMessageID(s), s.tname, "error", Text(reason)),
     ok |-> TRUE]

\* reject sends an error envelope back to a peer that failed authentication
reject(s, addr, reason) ==
    Only({ Only({ [s |-> w.s, msg |-> msg, ok |-> w.ok] :
                    w \in {sendRaw([s EXCEPT !.idc = @ + 1], addr, Marshal(msg))} })
           : msg \in {Message(newMessageID(s), s.tname, "error", Text(reason))} })

\* the result of verifyAndDecrypt
verdict(auth, reason, err, m) ==
    [authenticated |-> auth, reason |-> reason, err |-> err, msg |-> m]

\* the encrypted branch of verifyAndDecrypt: decode nonce and ciphertext, open
decryptBody(cipher, msg) ==
    Only({ IF ~nonce.ok THEN verdict(FALSE, "invalid nonce", TRUE, msg)
           ELSE IF ~ciphertext.ok THEN verdict(FALSE, "invalid ciphertext", TRUE, msg)
           ELSE Only({ IF ~plain.ok
                       THEN verdict(FALSE, "authentication failed", TRUE, msg)
                       ELSE verdict(TRUE, "", FALSE, [msg EXCEPT !.body = plain.plain])
                       : plain \in {Decrypt(cipher, nonce.data, ciphertext.data)} })
           : nonce \in {B64Decode(msg.nonce)}, ciphertext \in {B64Decode(msg.cipher)} })

\* a verification that holds error envelopes to the cipher mode of the session
verifyAndDecryptErrors(cipher, msg) ==
    IF cipher = NoKey
    THEN IF msg.cipher # EmptyStr
         THEN verdict(FALSE, "encryption required", TRUE, msg)
         ELSE verdict(TRUE, "", FALSE, msg)
    ELSE IF msg.cipher = EmptyStr
    THEN verdict(FALSE, "encryption required", TRUE, msg)
    ELSE decryptBody(cipher, msg)

\* verifyAndDecrypt authenticates an inbound envelope and restores its body
verifyAndDecrypt(cipher, msg) ==
    IF msg.kind = "error" THEN verdict(FALSE, "", FALSE, msg)
    ELSE IF cipher = NoKey
    THEN IF msg.cipher # EmptyStr
         THEN verdict(FALSE, "encryption required", TRUE, msg)
         ELSE verdict(TRUE, "", FALSE, msg)
    ELSE IF msg.cipher = EmptyStr
    THEN verdict(FALSE, "encryption required", TRUE, msg)
    ELSE decryptBody(cipher, msg)

----------------------------------------------------------------------------
(* Session: membership helpers *)

\* markPending updates membership when we attempt to contact a peer
markPending(s, addr) ==
    IF addr = NoAddr THEN s
    ELSE addPendingMember(s, canonicalNetAddr(addr)).s

\* markActive records a successful peer connection and caches its endpoint
markActive(s, addr, name) ==
    Only({ IF addr = NoAddr \/ addrStr = NoAddr
           THEN [s |-> s, changed |-> FALSE]
           ELSE Only({ markMemberActive(s1, addrStr, name) :
                         s1 \in {IF ap # NoAddr THEN setMemberEndpoint(s, addrStr, ap)
                                 ELSE s} })
           : addrStr \in {canonicalNetAddr(addr)}, ap \in {addrPortFromNet(addr)} })

\* dropPeer reacts to peer departure or failure
dropPeer(s, addr, reason) ==
    Only({ IF addr = NoAddr THEN [s |-> s, changed |-> FALSE]
           ELSE IF reason = "left the chat" THEN removeMember(s, addrStr)
           ELSE markMemberFailed(s, addrStr)
           : addrStr \in {canonicalNetAddr(addr)} })

----------------------------------------------------------------------------
(* Session: outbound *)

\* sendDirect prepares a message and delivers it directly to a peer
sendDirect(s, addr, kind, body) ==
    Only({ sendRaw(p.s, addr, p.raw) : p \in {prepare(s, s.cfgName, kind, body)} })

\* a failed write is shown to the user
noteSendFailure(w, text) == IF w.ok THEN w.s ELSE emitSystem(w.s, text)

RECURSIVE forwardEach(_, _, _)
forwardEach(s, targets, data) ==
    IF targets = <<>> THEN s
    ELSE Only({ forwardEach(s1, Tail(targets), data) :
                  s1 \in { noteSendFailure(w, "send failed") :
                             w \in {sendRaw(s, Head(targets), data)} } })

\* forwardRaw rebroadcasts an already encoded packet to the active peers
forwardRaw(s, data, exclude) ==
    Only({ forwardEach(s, [i \in 1..Len(keys) |-> s.members[keys[i]].endpoint], data)
           : keys \in { SortAddrs({ t.key : t \in found }) :
                          found \in {activeEndpoints(s, canonicalNetAddr(exclude))} } })

\* broadcast gossips a new message to every active peer, echoing a chat locally
broadcast(s, kind, body) ==
    Only({ Only({ forwardRaw(s1, p.raw, NoAddr) :
                    s1 \in {IF kind = "chat"
                            THEN emit(p.s, [p.msg EXCEPT !.body = body,
                                                         !.cipher = EmptyStr,
                                                         !.nonce = EmptyStr])
                            ELSE p.s} })
           : p \in {prepare(s, s.cfgName, kind, body)} })

----------------------------------------------------------------------------
(* Session: peer exchange *)

\* a listed peer that is invalid, the sender itself or the local node is skipped
skipsInfo(s, rc, nz) ==
    ~nz.ok \/ (rc.ok /\ nz.addr = rc.addr) \/ isLocal(s, nz.addr)

\* the step of collectUnknown for one listed peer that is not skipped:
\* the peer is made active, [s, add] tells whether it is to be contacted
collectOne(s, addr, name) ==
    Only({ IF act.changed THEN [s |-> act.s, add |-> TRUE]
           ELSE IF ~hasMember(act.s, addr)
           THEN Only({ [s |-> pend.s, add |-> pend.changed] :
                         pend \in {addPendingMember(act.s, addr)} })
           ELSE [s |-> act.s, add |-> FALSE]
           : act \in {markMemberActive(s, addr, name)} })

RECURSIVE collectEach(_, _, _, _)
collectEach(s, infos, remote, out) ==
    IF infos = <<>> THEN [s |-> s, out |-> out]
    ELSE Only({ IF skipsInfo(s, rc, nz)
                THEN collectEach(s, Tail(infos), remote, out)
                ELSE Only({ collectEach(one.s, Tail(infos), remote,
                                        IF one.add THEN Append(out, nz.addr) ELSE out)
                            : one \in {collectOne(s, nz.addr, Head(infos).name)} })
                : rc \in {normalizeAddr(remote, remote)},
                  nz \in {normalizeAddr(Head(infos).addr, remote)} })

\* collectUnknown records the listed peers and returns the addresses to contact
collectUnknown(s, infos, remote) == collectEach(s, infos, remote, <<>>)

\* the member a join payload advertises: its address, or the source address
\* when it has none, and its name, or the name of the envelope
advertised(payload, remoteAddr, remoteName) ==
    Only({ [addr |-> IF nz.ok THEN nz.addr ELSE remoteAddr,
            name |-> IF payload.member.name = "" THEN remoteName
                     ELSE payload.member.name]
           : nz \in {normalizeAddr(payload.member.addr, remoteAddr)} })

\* the membership step of processJoinPayload for the advertised member
admit(s, adv) ==
    IF adv.addr # NoAddr /\ ~isLocal(s, adv.addr)
    THEN markMemberActive(s, adv.addr, adv.name).s
    ELSE s

\* processJoinPayload updates membership from a join body and prepares the
\* peers response
processJoinPayload(s, data, remoteAddr, remoteName) ==
    Only({ IF ~payload.ok
           THEN [s |-> s, ok |-> FALSE, response |-> EmptyStr, additional |-> <<>>]
           ELSE Only({ Only({ [s |-> cu.s, ok |-> TRUE,
                               response |-> buildPeersPayloadData(cu.s, adv.addr),
                               additional |-> cu.out]
                              : cu \in { collectUnknown(s1, payload.peers, adv.addr) :
                                           s1 \in {admit(s, adv)} } })
                       : adv \in {advertised(payload, remoteAddr, remoteName)} })
           : payload \in {UnmarshalJoin(data)} })

\* processPeersPayload integrates a peers body and returns the new contacts
processPeersPayload(s, data, remoteAddr) ==
    Only({ IF ~payload.ok THEN [s |-> s, ok |-> FALSE, additional |-> <<>>]
           ELSE Only({ [s |-> cu.s, ok |-> TRUE, additional |-> cu.out] :
                         cu \in {collectUnknown(s, payload.peers, remoteAddr)} })
           : payload \in {UnmarshalPeers(data)} })

\* the end of contactPeer: the direct join to the resolved address
dial(s, resolved) ==
    Only({ IF w.ok THEN w.s
           ELSE Only({ dropPeer(s2, resolved, "failed").s :
                         s2 \in {emitSystem(w.s, "failed to reach")} })
           : w \in { sendDirect(s1, resolved, "join", buildJoinPayload(s)) :
                       s1 \in {markPending(s, resolved)} } })

\* contactPeer attempts to reach a hinted peer with a direct join
contactPeer(s, addr) ==
    IF addr = NoAddr THEN s
    ELSE IF isLocal(s, addr) \/ hasMember(s, addr) THEN s
    ELSE Only({ IF ~r.ok THEN emitSystem(s1, "peer hint failed")
                ELSE IF isLocal(s1, r.addr) THEN s1
                ELSE Only({ dial(s2, r.addr) :
                              s2 \in {IF addrPortFromNet(r.addr) # NoAddr
                                         /\ canonicalNetAddr(r.addr) # NoAddr
                                      THEN setMemberEndpoint(s1, canonicalNetAddr(r.addr),
                                                             addrPortFromNet(r.addr))
                                      ELSE s1} })
                : s1 \in {addPendingMember(s, addr).s}, r \in {resolveAddr(addr)} })

RECURSIVE contactEach(_, _)
contactEach(s, targets) ==
    IF targets = <<>> THEN s
    ELSE Only({ contactEach(s1, Tail(targets)) :
                  s1 \in {contactPeer(s, Head(targets))} })

\* the hinted addresses of a step are kept for the record of the step
contactAll(s, additional) ==
    Only({ contactEach(s1, additional) :
             s1 \in {[s EXCEPT !.hinted = @ \o additional]} })

\* handlePeersPayload merges received peer hints and dials the new addresses
handlePeersPayload(s, body, source) ==
    IF body = EmptyStr THEN s
    ELSE Only({ IF ~r.ok THEN s ELSE contactAll(r.s, r.additional) :
                  r \in {processPeersPayload(s, body, source)} })

----------------------------------------------------------------------------
(* Session: inbound *)

\* the text of a body used as a drop reason
reasonOf(body) == IF body.fmt = "text" THEN body.text ELSE "payload"

\* the join branch of handleIncoming: process the payload, answer with the
\* peers list, contact the hinted peers
handleJoin(s, msg, addr) ==
    Only({ IF ~r.ok THEN s
           ELSE Only({ contactAll(s1, r.additional) :
                         s1 \in { noteSendFailure(w, "failed to share peers") :
                                    w \in {sendDirect(r.s, addr, "peers", r.response)} } })
           : r \in {processJoinPayload(s, TrimSpace(msg.body), addr, msg.from)} })

\* a handler for which a leave keeps its sender as a Pending member
noteSenderKeeps(s, msg, addr, authenticated) ==
    IF ~authenticated THEN [s |-> s, changed |-> FALSE]
    ELSE IF msg.kind = "leave" /\ msg.from # ""
    THEN [s |-> dropPeer(s, addr, "left").s, changed |-> FALSE]
    ELSE markActive(s, addr, msg.from)

\* the membership step of handleIncoming for an authenticated envelope
noteSender(s, msg, addr, authenticated) ==
    IF ~authenticated THEN [s |-> s, changed |-> FALSE]
    ELSE IF msg.kind = "leave" /\ msg.from # ""
    THEN [s |-> dropPeer(s, addr, "left the chat").s, changed |-> FALSE]
    ELSE markActive(s, addr, msg.from)

\* an error branch that shows the envelope and keeps the peer
handleErrorKeepPeer(s, msg, addr) == emit(s, msg)

\* the error branch of handleIncoming: drop the source with the body as
\* reason, show the envelope, stop
handleError(s, msg, addr) ==
    Only({ emit(s1, msg) : s1 \in {dropPeer(s, addr, reasonOf(msg.body)).s} })

\* a handler that shows the join that activated its sender as it was received
announceRaw(m, msg, hasPayload) ==
    IF msg.kind = "join" /\ m.changed THEN emit(m.s, msg)
    ELSE IF ~hasPayload THEN emit(m.s, msg)
    ELSE m.s

\* the events of handleIncoming: the trimmed copy of a join that activated
\* its sender, the envelope itself unless suppressed
announce(m, msg, hasPayload) ==
    IF msg.kind = "join" /\ m.changed
    THEN emit(m.s, [msg EXCEPT !.body = EmptyStr, !.cipher = EmptyStr,
                               !.nonce = EmptyStr])
    ELSE IF ~hasPayload THEN emit(m.s, msg)
    ELSE m.s

\* handleIncoming processes a delivered envelope: membership, events, gossip
handleIncoming(s, msg, addr, raw, authenticated) ==
    IF msg.kind = "peers" THEN handlePeersPayload(s, msg.body, addr)
    ELSE Only({ IF msg.kind = "error" THEN handleError(s1, msg, addr)
                ELSE Only({ forwardRaw(s2, raw, addr) :
                              s2 \in { announce(m, msg, msg.kind = "join"
                                            /\ TrimSpace(msg.body) # EmptyStr) :
                                         m \in {noteSender(s1, msg, addr,
                                                           authenticated)} } })
                : s1 \in {IF msg.kind = "join" /\ TrimSpace(msg.body) # EmptyStr
                          THEN handleJoin(s, msg, addr) ELSE s} })

\* handleAuthReject notes an authentication failure and drops the peer
handleAuthReject(s, msg, addr) ==
    Only({ dropPeer(s1, addr, reasonOf(msg.body)).s : s1 \in {emit(s, msg)} })

\* a read loop that takes every id for a new one
alreadySeenNever(s, id) == FALSE

\* seen.LoadOrStore: whether the id was stored before
alreadySeen(s, id) == id \in s.seen

\* a read loop that forgets the ids it has read
recordSeenNever(s, id) == s

\* seen.LoadOrStore: the id is stored
recordSeen(s, id) == [s EXCEPT !.seen = @ \cup {id}]

Task(msg, addr, raw, authenticated) ==
    [msg |-> msg, addr |-> addr, raw |-> raw, authenticated |-> authenticated]

\* the rejection of listen: the error reply, then the reject callback
refuse(s, addr, reason) ==
    Only({ Only({ handleAuthReject(s1, rj.msg, addr) :
                    s1 \in {noteSendFailure(rj, "failed to send reject")} })
           : rj \in {reject(s, addr, reason)} })

\* one round of the read loop of transport.listen on a datagram that was read:
\* decode, deduplicate, verify, then reject or hand over to a new handler task
listen(s, data, addr) ==
    Only({ IF ~um.ok THEN emitSystem(s, "discarded malformed packet")
           ELSE IF alreadySeen(s, um.msg.id) THEN s
           ELSE Only({ IF v.err
                       THEN IF v.reason # "" THEN refuse(s1, addr, v.reason)
                            ELSE emitSystem(s1, "verify error")
                       ELSE [s1 EXCEPT !.delivered = @ \cup {um.msg.id},
                                       !.spawn =
                                Append(@, Task(v.msg, addr, data, v.authenticated))]
                       : s1 \in {recordSeen(s, um.msg.id)},
                         v \in {verifyAndDecrypt(s.cipher, um.msg)} })
           : um \in {Unmarshal(data)} })

----------------------------------------------------------------------------
(* Session: lifecycle *)

\* the fields of a step that do not outlive it: the datagrams written, the
\* events emitted, the addresses hinted and the handler tasks spawned
\* the number of datagrams written so far per envelope id (kept for
\* observation only), with the datagrams of a step added
RECURSIVE Tally(_, _)
Tally(wrote, sent) ==
    IF sent = <<>> THEN wrote
    ELSE Only({ Tally(IF um.ok
                      THEN [x \in DOMAIN wrote \cup {um.msg.id} |->
                              IF x = um.msg.id
                              THEN (IF x \in DOMAIN wrote THEN wrote[x] + 1 ELSE 1)
                              ELSE wrote[x]]
                      ELSE wrote,
                      Tail(sent))
                : um \in {Unmarshal(Head(sent).data)} })

Settle(s) == [s EXCEPT !.wrote = Tally(@, s.sent),
                       !.sent = <<>>, !.emitted = <<>>, !.hinted = <<>>,
                       !.spawn = <<>>, !.failed = <<>>]

RECURSIVE seedEach(_, _)
seedEach(s, seeds) ==
    IF seeds = <<>> THEN s
    ELSE Only({ seedEach(s1, Tail(seeds)) :
                  s1 \in { markPending([s EXCEPT !.bootstrap = Append(@, r.addr)],
                                       r.addr) :
                             r \in {resolveAddr(Head(seeds))} } })

\* the startup events that follow the seeding of the bootstrap peers
announceReady(s, cfg) ==
    Only({ IF s2.cipher # NoKey THEN emitSystem(s2, "encryption enabled") ELSE s2 :
             s2 \in { IF cfg.peers = <<>> THEN emitSystem(s1, "no peers provided")
                      ELSE s1 :
                      s1 \in {emitSystem(s, "listening")} } })

\* the fields of a session after the socket is bound
freshSession(self, cfg, unreach) ==
    [self |-> self, conn |-> cfg.listen, unreach |-> unreach,
     cfg |-> cfg, cfgName |-> cfg.name, tname |-> cfg.name, cipher |-> cfg.secret,
     bootstrap |-> <<>>, started |-> FALSE, closed |-> FALSE,
     seen |-> {}, delivered |-> {}, wrote |-> <<>>, events |-> <<>>, members |-> <<>>,
     localAddr |-> NoAddr, localIP |-> "", localPort |-> 0,
     idc |-> 0,
     ui |-> [pc |-> "idle", count |-> 0, cfg |-> cfg, resolved |-> <<>>],
     evClosed |-> FALSE, crashed |-> FALSE, swallowed |-> FALSE, discarded |-> 0,
     sockClosed |-> FALSE, loopDone |-> FALSE, down |-> "idle", exited |-> FALSE,
     count |-> [loops |-> 0, leaves |-> 0, sock |-> 0, events |-> 0, errs |-> 0,
                marks |-> 0],
     calls |-> [task \in {"ui", "loop"} |-> Idle],
     run |-> [task \in {"ui", "in1", "in2"} |-> <<>>],
     mu |-> [m \in {"members", "status", "transport"} |->
               [readers |-> {}, writer |-> "", waiting |-> {}]],
     sent |-> <<>>, emitted |-> <<>>, hinted |-> <<>>, spawn |-> <<>>,
     failed |-> <<>>]

\* newSession creates a session: socket, transport, membership seeded with
\* the local entry, bootstrap peers pending, startup events
newSession(self, cfg, unreach) ==
    Only({ Settle(s4) :
             s4 \in { announceReady(s3, cfg) :
                s3 \in { seedEach(s2, cfg.peers) :
                   s2 \in { emitSystem(s1, "yap") :
                      s1 \in {resetMembership(freshSession(self, cfg, unreach),
                                              cfg.listen)} } } } })

\* the step of start for one bootstrap peer: pending, direct join, then
\* active, or dropped when the write failed
joinBootstrap(s, addr, joinPayload) ==
    Only({ IF w.ok THEN [s |-> markActive(w.s, addr, "").s, ok |-> TRUE]
           ELSE Only({ [s |-> dropPeer(s2, addr, "failed").s, ok |-> FALSE] :
                         s2 \in {emitSystem(w.s, "bootstrap failed")} })
           : w \in { sendDirect(s1, addr, "join", joinPayload) :
                       s1 \in {markPending(s, addr)} } })

RECURSIVE startEach(_, _, _, _)
startEach(s, addrs, joinPayload, sentDirect) ==
    IF addrs = <<>> THEN [s |-> s, sentDirect |-> sentDirect]
    ELSE Only({ startEach(j.s, Tail(addrs), joinPayload, sentDirect \/ j.ok) :
                  j \in {joinBootstrap(s, Head(addrs), joinPayload)} })

\* a start that broadcasts its join whether or not a direct join was written
startBroadcasts(s) ==
    IF s.started THEN s
    ELSE Only({ Only({ broadcast(r.s, "join", joinPayload)
                       : r \in {startEach(s0, s0.bootstrap, joinPayload, FALSE)} })
                : s0 \in {[s EXCEPT !.started = TRUE, !.count.loops = @ + 1]},
                  joinPayload \in {buildJoinPayload(s)} })

\* start launches the read loop and announces the session to the bootstrap
\* peers; only the first call has an effect
start(s) ==
    IF s.started THEN s
    ELSE Only({ Only({ IF ~r.sentDirect THEN broadcast(r.s, "join", joinPayload)
                       ELSE r.s
                       : r \in {startEach(s0, s0.bootstrap, joinPayload, FALSE)} })
                : s0 \in {[s EXCEPT !.started = TRUE, !.count.loops = @ + 1]},
                  joinPayload \in {buildJoinPayload(s)} })

\* handleInput routes a line that is not a command to a chat broadcast
handleInput(s, text) ==
    IF text = "" THEN s ELSE broadcast(s, "chat", Text(text))

\* submit sends a line typed by the user
submit(s, text) ==
    IF text = "" THEN s
    ELSE Only({ handleInput(s1, text) : s1 \in {start(s)} })

----------------------------------------------------------------------------
(* Session: shutdown *)

\* a shutdown that runs its body at every call
shutdownOnceNever(s) == FALSE

\* shutdownOnce: whether the body of shutdown has been run
shutdownOnce(s) == s.down # "idle"

\* shutdown, first statement of the body: the leave broadcast
shutdownLeave(s) ==
    [broadcast(s, "leave", EmptyStr) EXCEPT !.down = "stop", !.count.leaves = @ + 1]

\* close: the stop signal is closed unless it is closed already
shutdownStop(s) == [s EXCEPT !.closed = TRUE, !.down = "sock"]

\* close: transport.close closes the socket
shutdownSocket(s) ==
    [s EXCEPT !.sockClosed = TRUE, !.down = "events", !.count.sock = @ + 1]

\* shutdown, last statement of the body: close(s.events); closing a closed
\* channel panics
shutdownEvents(s) ==
    [s EXCEPT !.evClosed = TRUE, !.crashed = @ \/ s.evClosed, !.down = "done",
              !.count.events = @ + 1]

\* shutdown as one call
shutdown(s) ==
    IF shutdownOnce(s) THEN s
    ELSE Only({ shutdownEvents(s3) :
                  s3 \in { shutdownSocket(s2) :
                             s2 \in { shutdownStop(s1) :
                                        s1 \in {shutdownLeave(s)} } } })

\* a read loop that a failed read ends
readFailedExits(s) ==
    [emitSystem([s EXCEPT !.count.errs = @ + 1], "read error") EXCEPT !.loopDone = TRUE]

\* the read loop after a read that failed and did not time out: it ends when
\* the stop signal is set, and reports the error and goes on otherwise
readFailed(s) ==
    IF s.closed THEN [s EXCEPT !.loopDone = TRUE]
    ELSE emitSystem([s EXCEPT !.count.errs = @ + 1], "read error")

\* the read loop after SetReadDeadline returned an error: it ends, and
\* reports the error first unless the stop signal is set
deadlineFailed(s) ==
    IF s.closed THEN [s EXCEPT !.loopDone = TRUE]
    ELSE [emitSystem([s EXCEPT !.count.errs = @ + 1], "read deadline error")
            EXCEPT !.loopDone = TRUE]

\* a read loop that does not poll the stop signal
readStoppedNever(s) == s

\* the read loop after a read that failed or timed out: it ends when the
\* stop signal is set
readStopped(s) == IF s.closed THEN [s EXCEPT !.loopDone = TRUE] ELSE s

----------------------------------------------------------------------------
(* Session: live reconfiguration *)

\* what config.ResolveProfile returns with its error, for a name that the
\* store does not hold
NoProfile == [name |-> "", listen |-> NoAddr, secret |-> NoKey, peers |-> <<>>]

\* activeAddrs without exclusions: the keys of the active members but the
\* local one
activeAddrs(s) ==
    { k \in DOMAIN s.members : s.members[k].status = "Active" /\ k # s.localAddr }

\* the peers of a profile are resolved, an entry that fails is reported and
\* skipped
RECURSIVE resolvePeers(_, _, _)
resolvePeers(s, peers, out) ==
    IF peers = <<>> THEN [s |-> s, resolved |-> out]
    ELSE Only({ IF r.ok THEN resolvePeers(s, Tail(peers), Append(out, r.addr))
                ELSE Only({ resolvePeers(s1, Tail(peers), out) :
                              s1 \in {emitSystem(s, "skipping peer")} })
                : r \in {resolveAddr(Head(peers))} })

\* a switchConfig that tells the peers that the node leaves before it looks
\* at the profile
switchLeaveFirst(s, cfg) ==
    IF cfg = NoProfile \/ (cfg.listen # NoAddr /\ cfg.listen # s.cfg.listen)
    THEN Only({ [emitSystem(s1, "refused") EXCEPT !.ui.count = @ + 1] :
                  s1 \in {IF activeAddrs(s) # {} THEN broadcast(s, "leave", EmptyStr)
                          ELSE s} })
    ELSE Only({ Only({ [s2 EXCEPT !.ui = [pc |-> "swap", count |-> @.count + 1,
                                          cfg |-> cfg, resolved |-> rp.resolved]]
                       : s2 \in {IF activeAddrs(rp.s) # {}
                                 THEN broadcast(rp.s, "leave", EmptyStr)
                                 ELSE rp.s} })
                : rp \in {resolvePeers(s, cfg.peers, <<>>)} })

\* a switchConfig that installs the cipher of the profile before its leave
switchLeaveLate(s, cfg) ==
    IF cfg = NoProfile \/ (cfg.listen # NoAddr /\ cfg.listen # s.cfg.listen)
    THEN [emitSystem(s, "refused") EXCEPT !.ui.count = @ + 1]
    ELSE
    Only({ Only({ [s2 EXCEPT !.cipher = s.cipher,
                             !.ui = [pc |-> "swap", count |-> @.count + 1,
                                     cfg |-> cfg, resolved |-> rp.resolved]]
                  : s2 \in {IF activeAddrs(rp.s) # {}
                            THEN broadcast([rp.s EXCEPT !.cipher = cfg.secret],
                                           "leave", EmptyStr)
                            ELSE rp.s} })
           : rp \in {resolvePeers(s, cfg.peers, <<>>)} })

\* switchConfig from the loaded profile to the leave broadcast: a profile for
\* another listen address is refused, the peers are resolved, the active
\* peers are told that the node leaves
switchLeave(s, cfg) ==
    IF cfg = NoProfile
    THEN [emitSystem(s, "failed to load config") EXCEPT !.ui.count = @ + 1]
    ELSE IF cfg.listen # NoAddr /\ cfg.listen # s.cfg.listen
    THEN [emitSystem(s, "restart required") EXCEPT !.ui.count = @ + 1]
    ELSE Only({ Only({ [s2 EXCEPT !.ui = [pc |-> "swap", count |-> @.count + 1,
                                          cfg |-> cfg, resolved |-> rp.resolved]]
                       : s2 \in {IF activeAddrs(rp.s) # {}
                                 THEN broadcast(rp.s, "leave", EmptyStr)
                                 ELSE rp.s} })
                : rp \in {resolvePeers(s, cfg.peers, <<>>)} })

\* the notice of switchConfig when encryption was toggled
noteToggle(s, prevSecret, secret) ==
    IF prevSecret = NoKey /\ secret # NoKey THEN emitSystem(s, "encryption enabled")
    ELSE IF prevSecret # NoKey /\ secret = NoKey
    THEN emitSystem(s, "encryption disabled")
    ELSE s

\* the notices of switchConfig when the display name changed
noteName(s, name) ==
    IF name # "" /\ name # s.cfgName
    THEN Only({ emitSystem(s1, "now chatting as") :
                  s1 \in {emit([s EXCEPT !.cfgName = name, !.cfg.name = name],
                               Message(NoId, "", "prompt", Text(name)))} })
    ELSE s

\* switchConfig: the secret, the cipher and the name of the transport are
\* replaced (transport.setCipher, transport.setName)
switchSwap(s) ==
    Only({ [s2 EXCEPT !.ui.pc = "reset"] :
             s2 \in { noteName(s1, s.ui.cfg.name) :
                        s1 \in {noteToggle([s EXCEPT !.cfg.secret = s.ui.cfg.secret,
                                                     !.cipher = s.ui.cfg.secret,
                                                     !.tname = s.ui.cfg.name],
                                            s.cfg.secret, s.ui.cfg.secret)} } })

\* a switchConfig that keeps the members of the previous profile
switchResetKeeps(s) ==
    [s EXCEPT !.bootstrap = s.ui.resolved, !.ui.pc = "join"]

\* switchConfig: the membership table is reset and the bootstrap list replaced
switchReset(s) ==
    Only({ [s1 EXCEPT !.bootstrap = s.ui.resolved, !.ui.pc = "join"] :
             s1 \in {resetMembership(s, s.conn)} })

\* switchConfig: the joins to the peers of the profile, the closing notices,
\* the configuration is replaced
switchJoin(s) ==
    Only({ Only({ [s2 EXCEPT !.ui.pc = "idle", !.cfg = s.ui.cfg,
                             !.cfgName = s.ui.cfg.name]
                  : s2 \in { emitSystem(s1, "switched") :
                               s1 \in {IF ~r.sentDirect /\ s.ui.resolved # <<>>
                                       THEN broadcast(r.s, "join", joinPayload)
                                       ELSE r.s} } })
           : r \in {startEach(s, s.ui.resolved, buildJoinPayload(s), FALSE)},
             joinPayload \in {buildJoinPayload(s)} })

\* switchConfig as one call
switchConfig(s, cfg) ==
    Only({ IF s1.ui.pc = "idle" THEN s1
           ELSE Only({ switchJoin(s3) :
                         s3 \in { switchReset(s2) : s2 \in {switchSwap(s1)} } })
           : s1 \in {switchLeave(s, cfg)} })

----------------------------------------------------------------------------
(* The deployments that are checked *)

Addr(n) == [ip |-> "127.0.0.1",
            port |-> CASE n = "A" -> 4001 [] n = "B" -> 4002 [] OTHER -> 4003]

NameOf(n) == CASE n = "A" -> "ann" [] n = "B" -> "bob" [] OTHER -> "cat"

Config(n, secret, peers) ==
    [name |-> NameOf(n), listen |-> Addr(n), secret |-> secret,
     peers |-> [i \in 1..Len(peers) |-> Addr(peers[i])]]

\* two nodes, B bootstraps from A
PairCfg == [n \in {"A", "B"} |->
              IF n = "A" THEN Config(n, NoKey, <<>>) ELSE Config(n, NoKey, <<"A">>)]

\* three nodes, B and C bootstrap from A
TrioCfg == [n \in {"A", "B", "C"} |->
              IF n = "A" THEN Config(n, NoKey, <<>>) ELSE Config(n, NoKey, <<"A">>)]

\* A runs with a secret and B without, each has the other as bootstrap peer
MixedCfg == [n \in {"A", "B"} |->
               IF n = "A" THEN Config(n, "s", <<"B">>) ELSE Config(n, NoKey, <<"A">>)]

\* A and B run with different secrets
KeysCfg == [n \in {"A", "B"} |->
              IF n = "A" THEN Config(n, "s", <<>>) ELSE Config(n, "t", <<"A">>)]

\* A and B share a secret
SecureCfg == [n \in {"A", "B"} |->
                IF n = "A" THEN Config(n, "s", <<>>) ELSE Config(n, "s", <<"A">>)]

Deployments == {PairCfg, TrioCfg, MixedCfg, KeysCfg, SecureCfg}

----------------------------------------------------------------------------
(* The network: a bag of datagrams *)

RECURSIVE AddAll(_, _)
AddAll(bag, seq) ==
    IF seq = <<>> THEN bag
    ELSE AddAll([x \in DOMAIN bag \cup {Head(seq)} |->
                    IF x = Head(seq)
                    THEN (IF x \in DOMAIN bag THEN bag[x] + 1 ELSE 1)
                    ELSE bag[x]],
                Tail(seq))

Remove(bag, d) ==
    IF bag[d] > 1 THEN [bag EXCEPT ![d] = @ - 1]
    ELSE [x \in DOMAIN bag \ {d} |-> bag[x]]

\* the socket bound to conn reads the datagrams written to dst
Reads(conn, dst) ==
    /\ conn.port = dst.port
    /\ \/ conn.ip = dst.ip
       \/ IsUnspecified(conn.ip) /\ (IsLoopback(dst.ip) \/ IsUnspecified(dst.ip))

\* the record of a step: the operation, the node, the envelope and datagram
\* it worked on, whether the envelope id was in the seen-set before, and what
\* the step wrote, emitted, was hinted and spawned
Step(op, n, s, msg, src, raw, known) ==
    [op |-> op, node |-> n, msg |-> msg, src |-> src, raw |-> raw,
     known |-> known, sent |-> s.sent, emitted |-> s.emitted,
     hinted |-> s.hinted, spawn |-> s.spawn, failed |-> s.failed]

----------------------------------------------------------------------------
(* What is observed of a state *)

Range(f) == { f[i] : i \in DOMAIN f }

\* node n holds node m as a member with the given status
HoldsAs(n, m, status) ==
    /\ n \in DOMAIN sess /\ m \in DOMAIN sess
    /\ Addr(m) \in DOMAIN sess[n].members
    /\ sess[n].members[Addr(m)].status = status

Active(n, m) == HoldsAs(n, m, "Active")

\* every node of a three-node deployment holds the other two Active
FullMesh ==
    /\ DOMAIN sess = Nodes
    /\ \A n, m \in Nodes : n # m => Active(n, m)

\* nothing is in flight and no handler is pending
Quiet == net = <<>> /\ \A n \in DOMAIN tasks : tasks[n] = {}

\* the number of times the event queue of n was given the chat envelope id
Copies(n, id) ==
    IF n \notin DOMAIN sess THEN 0
    ELSE Cardinality({ i \in DOMAIN sess[n].events :
                         /\ sess[n].events[i].kind = "chat"
                         /\ sess[n].events[i].id = id })

----------------------------------------------------------------------------
(* Specification *)

\* the sessions of a deployment after construction; the writes to the
\* addresses of one of the given sets fail
InitFrom(deployments, losses) ==
    \E cfg \in deployments, unreach \in losses :
        /\ sess = [n \in DOMAIN cfg |-> newSession(n, cfg[n], unreach)]
        /\ net = <<>>
        /\ tasks = [n \in DOMAIN cfg |-> {}]
        /\ chats = <<>>
        /\ last = [op |-> "init", node |-> "", msg |-> NoMsg, src |-> NoAddr,
                   raw |-> NoData, known |-> FALSE, sent |-> <<>>,
                   emitted |-> <<>>, hinted |-> <<>>, spawn |-> <<>>,
                   failed |-> <<>>]

InitOf(deployments) == InitFrom(deployments, {{}})

Init == InitOf(Deployments)

\* the effect of a step of node n that leaves it in s (before Settle)
Commit(n, s, op, msg, src, raw, known, arrived, done) ==
    /\ sess' = [sess EXCEPT ![n] = Settle(s)]
    /\ net' = AddAll(arrived, s.sent)
    /\ tasks' = [tasks EXCEPT ![n] = (@ \ done) \cup {s.spawn[i] : i \in 1..Len(s.spawn)}]
    /\ last' = Step(op, n, s, msg, src, raw, known)

\* Run calls session.start
Start(n) ==
    /\ n \in DOMAIN sess
    /\ ~sess[n].started
    /\ \E s \in {start(sess[n])} :
          Commit(n, s, "start", NoMsg, NoAddr, NoData, FALSE, net, {})
    /\ UNCHANGED chats

\* the user types a chat line; Run starts the UI after session.start. The
\* line is noted with the id its envelope gets and whether every node held
\* every other node Active when it was typed
Submit(n) ==
    /\ n \in DOMAIN sess
    /\ sess[n].started
    /\ sess[n].ui.pc = "idle"
    /\ sess[n].down \in {"idle", "done"} /\ ~sess[n].exited
    /\ Len(chats) < MaxChats
    /\ \E s \in {submit(sess[n], "hello")} :
          Commit(n, s, "submit", NoMsg, NoAddr, NoData, FALSE, net, {})
    /\ chats' = Append(chats, [id |-> newMessageID(sess[n]), from |-> n,
                               mesh |-> FullMesh])

\* the read loop of n reads one datagram and handles it up to the hand-over
Recv(n) ==
    /\ n \in DOMAIN sess
    /\ sess[n].started
    /\ ~sess[n].loopDone /\ ~sess[n].sockClosed
    /\ sess[n].calls["loop"] = Idle
    /\ \E d \in DOMAIN net :
        /\ Reads(sess[n].conn, d.dst)
        /\ \E s \in {listen(sess[n], d.data, d.src)}, um \in {Unmarshal(d.data)} :
              Commit(n, s, "recv", um.msg, d.src, d.data,
                     alreadySeen(sess[n], um.msg.id), Remove(net, d), {})
    /\ UNCHANGED chats

\* a handler task of n runs session.handleIncoming
Handle(n) ==
    /\ n \in DOMAIN sess
    /\ \E t \in tasks[n] :
        \E s \in {handleIncoming(sess[n], t.msg, t.addr, t.raw, t.authenticated)} :
            Commit(n, s, "handle", t.msg, t.addr, t.raw, FALSE, net, {t})
    /\ UNCHANGED chats

Next ==
    \E n \in Nodes : Start(n) \/ Submit(n) \/ Recv(n) \/ Handle(n)

Spec == Init /\ [][Next]_vars

\* the deployments of two nodes
Pairs == { cfg \in Deployments : DOMAIN cfg = {"A", "B"} }

PairInit == InitOf(Pairs)

PairSpec == PairInit /\ [][Next]_vars

\* Run always calls start, the read loop reads every datagram that arrived
\* and the scheduler runs every handler goroutine
Fairness ==
    \A n \in Nodes : WF_vars(Start(n)) /\ WF_vars(Recv(n)) /\ WF_vars(Handle(n))

FairSpec == Spec /\ Fairness

PairFairSpec == PairSpec /\ Fairness

----------------------------------------------------------------------------
(* Datagrams of a host that is no node of the deployment *)

Outsider == [ip |-> "10.0.0.2", port |-> 4009]

StrayId(k) == <<"X", k>>

\* an envelope of kind error that carries a cipher field
StrayError(k) ==
    [Message(StrayId(k), "eve", "error", Text("go away")) EXCEPT
       !.cipher = B64Encode(Encrypt("x", StrayId(k), Text("hidden"))),
       !.nonce  = B64Encode(StrayId(k))]

\* the datagrams of the outsider sent so far: in flight, or read by a node
Injected ==
    { k \in 1..MaxInjected :
        \/ \E d \in DOMAIN net : d.data = Marshal(StrayError(k))
        \/ \E n \in DOMAIN sess : StrayId(k) \in sess[n].seen }

\* the socket of n is open to every host: the outsider writes a datagram to it
Inject(n) ==
    /\ n \in DOMAIN sess
    /\ Cardinality(Injected) < MaxInjected
    /\ \E d \in {Datagram(Outsider, sess[n].conn,
                           Marshal(StrayError(Cardinality(Injected) + 1)))} :
          /\ net' = AddAll(net, <<d>>)
          /\ last' = [op |-> "inject", node |-> n, msg |-> Unmarshal(d.data).msg,
                      src |-> d.src, raw |-> d.data, known |-> FALSE,
                      sent |-> <<>>, emitted |-> <<>>, hinted |-> <<>>,
                      spawn |-> <<>>, failed |-> <<>>]
    /\ UNCHANGED <<sess, tasks, chats>>

OpenNext == \E n \in Nodes : Start(n) \/ Recv(n) \/ Handle(n) \/ Inject(n)

\* the two-node deployments on sockets that an outsider writes to, while the
\* users only watch
OpenSpec == PairInit /\ [][OpenNext]_vars

----------------------------------------------------------------------------
(* The user of a node switches to a stored profile *)

Other(n) == IF n = "A" THEN "B" ELSE "A"

\* the profiles in the store of n: one with a secret and with n itself
\* among the peers, one with another name and no peers, one for another
\* listen address
Profiles(n) ==
    { [name |-> NameOf(n), listen |-> Addr(n), secret |-> "s",
       peers |-> <<Addr(n), Addr(Other(n))>>],
      [name |-> "zed", listen |-> Addr(n), secret |-> NoKey, peers |-> <<>>],
      [name |-> NameOf(n), listen |-> Addr("C"), secret |-> NoKey, peers |-> <<>>] }

\* the number of /switch commands typed so far
Switches ==
    LET typed(n) == IF n \in DOMAIN sess THEN sess[n].ui.count ELSE 0
    IN  typed("A") + typed("B") + typed("C")

\* the user types /switch <profile>: submit, handleCommand, switchConfig up
\* to the leave broadcast
Switch(n) ==
    /\ n \in DOMAIN sess
    /\ sess[n].started
    /\ sess[n].ui.pc = "idle"
    /\ sess[n].down \in {"idle", "done"} /\ ~sess[n].exited
    /\ Switches < MaxSwitches
    /\ \E cfg \in Profiles(n) \cup {NoProfile} :
          \E s \in {switchLeave(sess[n], cfg)} :
              Commit(n, s, "switch", NoMsg, NoAddr, NoData, FALSE, net, {})
    /\ UNCHANGED chats

\* switchConfig goes on: the cipher and the name are replaced
SwitchSwap(n) ==
    /\ n \in DOMAIN sess
    /\ sess[n].ui.pc = "swap"
    /\ \E s \in {switchSwap(sess[n])} :
          Commit(n, s, "swap", NoMsg, NoAddr, NoData, FALSE, net, {})
    /\ UNCHANGED chats

\* switchConfig goes on: the membership table is reset
SwitchReset(n) ==
    /\ n \in DOMAIN sess
    /\ sess[n].ui.pc = "reset"
    /\ \E s \in {switchReset(sess[n])} :
          Commit(n, s, "reset", NoMsg, NoAddr, NoData, FALSE, net, {})
    /\ UNCHANGED chats

\* switchConfig ends: the peers of the profile are joined
SwitchJoin(n) ==
    /\ n \in DOMAIN sess
    /\ sess[n].ui.pc = "join"
    /\ \E s \in {switchJoin(sess[n])} :
          Commit(n, s, "rejoin", NoMsg, NoAddr, NoData, FALSE, net, {})
    /\ UNCHANGED chats

SwitchNext ==
    \E n \in Nodes : \/ Start(n) \/ Recv(n) \/ Handle(n)
                     \/ Switch(n) \/ SwitchSwap(n) \/ SwitchReset(n) \/ SwitchJoin(n)

SwitchInit == InitOf({PairCfg, SecureCfg})

\* two nodes whose users switch profiles while the session runs: the read
\* loop and the handlers run between the steps of switchConfig
SwitchSpec == SwitchInit /\ [][SwitchNext]_vars

----------------------------------------------------------------------------
(* Loop suppression *)

\* C1: a chat typed at a node of a three-node mesh in which all hold each
\* other Active is put on the event queue of each of the other two nodes,
\* and never more than once, whatever the order of arrival and handling of
\* the direct and the forwarded copies.
C1_LoopSuppression ==
    /\ \A k \in 1..MaxChats : \A m \in Nodes :
          (Len(chats) >= k /\ chats[k].mesh /\ m # chats[k].from)
             ~> (Copies(m, chats[k].id) = 1)
    /\ [](\A k \in DOMAIN chats : \A m \in Nodes \ {chats[k].from} :
             chats[k].mesh => Copies(m, chats[k].id) <= 1)

\* a node reads one more copy of a mesh chat that both other nodes have shown
C1_Witness ==
    /\ last.op = "recv" /\ last.known
    /\ \E k \in DOMAIN chats :
          /\ chats[k].mesh /\ last.msg.id = chats[k].id
          /\ \A m \in Nodes \ {chats[k].from} : Copies(m, chats[k].id) = 1

\* C2: a datagram whose envelope id is already in the seen-set of the
\* receiver is dropped silently: membership and event queue unchanged, no
\* handler task, no reject, no datagram written.
C2_DuplicateDropped ==
    [][\A n \in Nodes :
         (/\ last'.op = "recv" /\ last'.node = n
          /\ Unmarshal(last'.raw).ok
          /\ last'.msg.id \in sess[n].seen)
         => /\ sess'[n].members = sess[n].members
            /\ sess'[n].events = sess[n].events
            /\ sess'[n].idc = sess[n].idc
            /\ tasks' = tasks
            /\ last'.emitted = <<>> /\ last'.spawn = <<>> /\ last'.sent = <<>>
            /\ \A d \in DOMAIN net' : d \in DOMAIN net /\ net'[d] <= net[d]]_vars

\* a node reads an envelope it originated itself
C2_Witness ==
    /\ last.op = "recv" /\ last.known
    /\ last.msg.id[1] = last.node

----------------------------------------------------------------------------
(* Join *)

\* A listens without bootstrap peers, B has A as its only bootstrap peer and
\* both run with the same secret or none
JoinPair ==
    /\ DOMAIN sess = {"A", "B"}
    /\ sess["A"].cipher = sess["B"].cipher
    /\ sess["A"].bootstrap = <<>>
    /\ sess["B"].bootstrap = <<Addr("A")>>

Mutual == Active("A", "B") /\ Active("B", "A")

\* C3: in the two-node join, with no datagram lost, eventually A holds B
\* Active and B holds A Active.
C3_TwoNodeJoin == JoinPair ~> Mutual

C3_Witness == JoinPair /\ Mutual /\ Quiet

\* the event queue of n was given a join envelope of m
JoinEventFrom(n, m) ==
    \E e \in Range(sess[n].events) : e.kind = "join" /\ e.from = NameOf(m)

\* C4: in the two-node join the event stream of A eventually contains a join
\* event from B: once B has started and every datagram is read and handled,
\* the event queue of A was given a join envelope of B.
C4_JoinNotice ==
    (JoinPair /\ sess["B"].started /\ Quiet) => JoinEventFrom("A", "B")

\* the datagrams of a kind that the last step wrote to a node
SentTo(m, kind) ==
    { d \in Range(last.sent) : d.dst = Addr(m) /\ Unmarshal(d.data).msg.kind = kind }

\* a peers body lists node m
Lists(body, m) ==
    \E info \in Range(UnmarshalPeers(body).peers) : info.addr = Addr(m)

\* A, holding B Active, has handled the join that C sent to it
AnswersC ==
    /\ last.op = "handle" /\ last.node = "A"
    /\ last.msg.kind = "join" /\ last.src = Addr("C")
    /\ Active("A", "B") /\ Active("B", "A")

\* C5: when C joins through A while A and B hold each other Active, the
\* peers reply of A to C lists B; and, with no datagram lost, eventually
\* each of A, B and C holds the other two Active.
C5_TransitiveDiscovery ==
    /\ [](AnswersC =>
            /\ SentTo("C", "peers") # {}
            /\ \A d \in SentTo("C", "peers") : Lists(Unmarshal(d.data).msg.body, "B"))
    /\ (DOMAIN sess = Nodes) ~> FullMesh

\* C handles the peers reply of A that lists B, and the mesh is complete
C5_Witness ==
    /\ last.op = "handle" /\ last.node = "C"
    /\ last.msg.kind = "peers" /\ last.src = Addr("A")
    /\ Lists(last.msg.body, "B")
    /\ FullMesh

\* C6: every address that processJoinPayload or processPeersPayload returns
\* as newly hinted, other than the local one, is sent a direct join envelope
\* in the same step.
C6_HintsContacted ==
    \A i \in DOMAIN last.hinted :
        last.hinted[i] # sess[last.node].localAddr
          => \E d \in Range(last.sent) :
                d.dst = last.hinted[i] /\ Unmarshal(d.data).msg.kind = "join"

----------------------------------------------------------------------------
(* Encryption *)

\* the last step is the read of a well-formed datagram
Read == last.op = "recv" /\ Unmarshal(last.raw).ok

\* the last step is the read of an envelope that is new to the reader and
\* not of kind error
ReadNew == Read /\ ~last.known /\ last.msg.kind # "error"

Configured == sess[last.node].cipher # NoKey

Encrypted == last.msg.cipher # EmptyStr

\* what the sender sealed into the cipher field
Sealed == B64Decode(last.msg.cipher).data

\* the error envelopes that the last step wrote to the source of its datagram
ErrorReplies ==
    { Unmarshal(d.data).msg :
        d \in { x \in Range(last.sent) :
                  x.dst = last.src /\ Unmarshal(x.data).msg.kind = "error" } }

\* the last step refused the envelope it read: one plaintext error reply to
\* the source with the reason as body, no handler task, and the only event
\* is the error envelope of the reply
Rejected(reason) ==
    /\ Len(last.sent) = 1 /\ last.sent[1].dst = last.src
    /\ Unmarshal(last.sent[1].data).msg.kind = "error"
    /\ Unmarshal(last.sent[1].data).msg.body = Text(reason)
    /\ Unmarshal(last.sent[1].data).msg.cipher = EmptyStr
    /\ Unmarshal(last.sent[1].data).msg.from = sess[last.node].tname
    /\ last.spawn = <<>>
    /\ last.emitted = <<Unmarshal(last.sent[1].data).msg>>
    /\ \A e \in Range(sess[last.node].events) : e.id # last.msg.id

\* the last step handed the envelope it read to a handler task, authenticated
\* and with the given body, and wrote and emitted nothing
Delivered(body) ==
    /\ last.spawn = <<Task([last.msg EXCEPT !.body = body], last.src, last.raw, TRUE)>>
    /\ last.sent = <<>>
    /\ last.emitted = <<>>

\* C7 as stated: an envelope whose cipher field is empty in a session with a
\* cipher, or non-empty in a session without one, yields an error reply to
\* the source and no emission to the UI.
C7_MismatchNoEmission ==
    (Read /\ Configured # Encrypted)
        => ErrorReplies # {} /\ last.emitted = <<>> /\ last.spawn = <<>>

\* C7: an envelope that is not of kind error, is new to the reader and has
\* an empty cipher field in a session with a cipher, or a non-empty one in a
\* session without, yields one error reply "encryption required" to the
\* source, is not handed to a handler and is not itself emitted; the only
\* event is the error envelope of the reply.
C7_MismatchRefused ==
    (ReadNew /\ Configured # Encrypted) => Rejected("encryption required")

\* a session with a cipher has read a new plaintext join
C7_Witness ==
    /\ ReadNew /\ Configured /\ ~Encrypted
    /\ last.msg.kind = "join"
    /\ ErrorReplies # {}

\* the envelope of a handler task fits the cipher of its session
Accepted(n, t) ==
    IF sess[n].cipher = NoKey THEN Unmarshal(t.raw).msg.cipher = EmptyStr
    ELSE /\ Unmarshal(t.raw).msg.cipher # EmptyStr
         /\ B64Decode(Unmarshal(t.raw).msg.cipher).data.key = sess[n].cipher

\* C8: for an envelope not of kind error, by (cipher configured, envelope
\* encrypted): no/no is delivered authenticated with the body unchanged;
\* no/yes and yes/no are rejected with "encryption required"; yes/yes under
\* the key of the session is delivered authenticated with the plaintext as
\* body; yes/yes under another key is rejected with "authentication failed".
\* No handler task holds a rejected envelope.
C8_VerifyTable ==
    /\ ReadNew =>
          IF ~Configured /\ ~Encrypted THEN Delivered(last.msg.body)
          ELSE IF Configured # Encrypted THEN Rejected("encryption required")
          ELSE IF Sealed.key = sess[last.node].cipher THEN Delivered(Sealed.plain)
          ELSE Rejected("authentication failed")
    /\ \A n \in DOMAIN tasks : \A t \in tasks[n] :
          t.msg.kind # "error" => t.authenticated /\ Accepted(n, t)

\* a session with a cipher has read a new join sealed under its own key and
\* handed it over with the join payload as body
C8_Witness ==
    /\ ReadNew /\ Configured /\ Encrypted
    /\ Sealed.key = sess[last.node].cipher
    /\ last.msg.body = EmptyStr
    /\ Len(last.spawn) = 1 /\ last.spawn[1].msg.body.fmt = "json"

\* the source of the last step is no member, or a pending one without endpoint
SourceDropped ==
    \/ last.src \notin DOMAIN sess[last.node].members
    \/ /\ reasonOf(last.msg.body) # "left the chat"
       /\ sess[last.node].members[last.src].status = "Pending"
       /\ sess[last.node].members[last.src].endpoint = NoAddr

\* C9: an envelope of kind error that is new to the reader is handed to a
\* handler task whatever the cipher of the session and whether or not it
\* carries a cipher field,
\* without a reply; the handler drops the source with the body as reason and
\* emits the envelope, writes no datagram and leaves the source not Active.
C9_ErrorDelivered ==
    /\ (Read /\ ~last.known /\ last.msg.kind = "error")
          => /\ last.spawn = <<Task(last.msg, last.src, last.raw, FALSE)>>
             /\ last.sent = <<>>
             /\ last.emitted = <<>>
    /\ (last.op = "handle" /\ last.msg.kind = "error")
          => /\ last.emitted = <<last.msg>>
             /\ last.sent = <<>>
             /\ SourceDropped

\* a session with a cipher has handled a plaintext error envelope of a peer
\* that it held before
C9_Witness ==
    /\ last.op = "handle" /\ last.msg.kind = "error"
    /\ Configured /\ ~Encrypted
    /\ last.src \in DOMAIN sess[last.node].members

----------------------------------------------------------------------------
(* Gossip *)

\* the last step is the handling of an envelope that is gossiped
Gossiped == last.op = "handle" /\ last.msg.kind \notin {"peers", "error"}

\* the writes of the last step that carry the raw bytes it was given
RawCopies == { i \in DOMAIN last.sent : last.sent[i].data = last.raw }

\* the members that n holds Active, without its local entry
ActivePeers(n) ==
    { k \in DOMAIN sess[n].members :
        sess[n].members[k].status = "Active" /\ k # sess[n].localAddr }

\* C10: the handling of an envelope of a kind other than peers and error
\* writes the raw bytes it received, unchanged and once, to every member
\* that is Active at that moment except the source of the datagram, and to
\* nobody else.
C10_GossipStep ==
    Gossiped =>
        /\ { last.sent[i].dst : i \in RawCopies } = ActivePeers(last.node) \ {last.src}
        /\ Cardinality(RawCopies) = Cardinality(ActivePeers(last.node) \ {last.src})

\* an envelope of an Active source was forwarded to another Active member
C10_Witness ==
    /\ Gossiped /\ RawCopies # {}
    /\ last.src \in ActivePeers(last.node)

----------------------------------------------------------------------------
(* The local entry of the membership table *)

\* the table of n holds the local node Active under the key localAddr
LocalSeeded(n) ==
    sess[n].localAddr # NoAddr =>
        /\ sess[n].localAddr \in DOMAIN sess[n].members
        /\ sess[n].members[sess[n].localAddr].status = "Active"
        /\ sess[n].members[sess[n].localAddr].addr = sess[n].localAddr

\* C11: in every state of a session with a local address the membership
\* table holds the local node as an Active member under the key localAddr:
\* no membership operation demotes or erases it, also not when the node is
\* its own bootstrap peer, and the reset of /switch leaves it seeded.
C11_LocalActive == \A n \in DOMAIN sess : LocalSeeded(n)

\* a switch to a profile that lists the node itself has reset the table and
\* sent the node a join of its own
C11_Witness ==
    /\ last.op = "rejoin"
    /\ \E i \in DOMAIN last.sent : Reads(sess[last.node].conn, last.sent[i].dst)
    /\ sess[last.node].localAddr # NoAddr
    /\ LocalSeeded(last.node)

----------------------------------------------------------------------------
(* The peer lists that a node sends *)

\* the body of an envelope as its sender wrote it
PlainBody(m) ==
    IF m.cipher # EmptyStr THEN B64Decode(m.cipher).data.plain ELSE m.body

\* the addresses in the peers field of a join or peers envelope
Listed(m) == { info.addr : info \in Range(UnmarshalPeers(PlainBody(m)).peers) }

\* the datagrams of the last step with a join or peers envelope that the
\* node of the step made itself (not the copies it forwards)
OwnLists ==
    { d \in Range(last.sent) :
        /\ Unmarshal(d.data).msg.id[1] = last.node
        /\ Unmarshal(d.data).msg.kind \in {"join", "peers"} }

\* no peer list that a node sends contains the address of the node
NeverListsSelf ==
    \A d \in OwnLists : sess[last.node].localAddr \notin Listed(Unmarshal(d.data).msg)

\* C12: no peer list that a node sends contains the address of the node,
\* and the peers payload sent in reply to a join does not contain the
\* address it is sent to, the source of the join datagram, also when the
\* join was forwarded.
C12_PeerLists ==
    /\ NeverListsSelf
    /\ \A d \in OwnLists :
          Unmarshal(d.data).msg.kind = "peers" => d.dst \notin Listed(Unmarshal(d.data).msg)

\* the claim holds for the reply to a join that arrives from its author
C12_DirectReplies ==
    (last.op = "handle" /\ last.msg.kind = "join"
       /\ UnmarshalJoin(last.msg.body).member.addr = last.src)
    => \A d \in OwnLists :
          Unmarshal(d.data).msg.kind = "peers" => d.dst \notin Listed(Unmarshal(d.data).msg)

----------------------------------------------------------------------------
(* Addresses that denote the local node *)

\* A listens on every interface and its profile lists the whole group, A
\* itself included; B bootstraps from A
AliasCfg ==
    [n \in {"A", "B"} |->
       IF n = "A"
       THEN [name |-> NameOf(n), listen |-> [ip |-> "0.0.0.0", port |-> Addr(n).port],
             secret |-> NoKey, peers |-> <<Addr("A"), Addr("B")>>]
       ELSE Config(n, NoKey, <<"A">>)]

AliasInit == InitOf({AliasCfg})

AliasSpec == AliasInit /\ [][Next]_vars

\* the records of n, other than the local entry, whose address denotes n
LocalAliases(n) ==
    { k \in DOMAIN sess[n].members :
        k # sess[n].localAddr /\ isLocal(sess[n], sess[n].members[k].addr) }

\* C13: no membership table holds a record, other than the local entry,
\* with an address for which the locality predicate holds: every membership
\* mutation rejects an address that maps to the local node.
C13_NoLocalAlias == \A n \in DOMAIN sess : LocalAliases(n) = {}

----------------------------------------------------------------------------
(* The event queue under concurrent emitters *)

\* one node that waits for someone to connect
SoloCfg == [n \in {"A"} |-> Config(n, NoKey, <<>>)]

QueueInit == InitOf({SoloCfg})

Tasks == {"ui", "loop"}

\* bytes that are no JSON envelope
Garbage == [fmt |-> "garbage"]

GarbageTo(n) == Datagram(Outsider, sess[n].conn, Garbage)

\* the number of malformed datagrams written so far
Garbled ==
    LET count(n) == IF n \notin DOMAIN sess THEN 0
                    ELSE sess[n].discarded
                         + (IF GarbageTo(n) \in DOMAIN net THEN net[GarbageTo(n)] ELSE 0)
    IN  count("A") + count("B") + count("C")

\* a host outside the deployment writes a malformed datagram to the socket of n
Garble(n) ==
    /\ n \in DOMAIN sess
    /\ Garbled < MaxInjected
    /\ net' = AddAll(net, <<GarbageTo(n)>>)
    /\ last' = [op |-> "garble", node |-> n, msg |-> NoMsg, src |-> Outsider,
                raw |-> Garbage, known |-> FALSE, sent |-> <<>>,
                emitted |-> <<>>, hinted |-> <<>>, spawn |-> <<>>,
                failed |-> <<>>]
    /\ UNCHANGED <<sess, tasks, chats>>

\* the read loop of n reads a malformed datagram and enters emit with the
\* notice about it
Discard(n) ==
    /\ n \in DOMAIN sess
    /\ sess[n].started
    /\ ~sess[n].loopDone /\ ~sess[n].sockClosed
    /\ sess[n].calls["loop"] = Idle
    /\ GarbageTo(n) \in DOMAIN net
    /\ \E s \in {emitCall([sess[n] EXCEPT !.discarded = @ + 1], "loop",
                          Message(NoId, "", "system",
                                  Text("discarded malformed packet")))} :
          Commit(n, s, "discard", NoMsg, Outsider, Garbage, FALSE,
                 Remove(net, GarbageTo(n)), {})
    /\ UNCHANGED chats

\* the user of n types an unknown command: submit, handleInput,
\* handleCommand, emitSystem, and the task of the interface enters emit
Type(n) ==
    /\ n \in DOMAIN sess
    /\ sess[n].started
    /\ sess[n].ui.pc = "idle"
    /\ sess[n].down \in {"idle", "done"} /\ ~sess[n].exited
    /\ sess[n].calls["ui"] = Idle
    /\ \E s \in {emitCall(sess[n], "ui",
                          Message(NoId, "", "system", Text("unknown command")))} :
          Commit(n, s, "type", NoMsg, NoAddr, NoData, FALSE, net, {})
    /\ UNCHANGED chats

\* a task of n that is in emit takes its next step
EmitOf(n, task) ==
    /\ n \in DOMAIN sess
    /\ \E case \in readyCases(sess[n], task) :
          \E s \in {emitStep(sess[n], task, case)} :
              Commit(n, s, "emit", NoMsg, NoAddr, NoData, FALSE, net, {})
    /\ UNCHANGED chats

Emit(n) == \E task \in Tasks : EmitOf(n, task)

QueueNext ==
    \E n \in Nodes : Start(n) \/ Type(n) \/ Garble(n) \/ Discard(n) \/ Emit(n)

\* the interface consumes no event, the user types unknown commands, the
\* read loop discards malformed datagrams
QueueSpec == QueueInit /\ [][QueueNext]_vars

\* the task is in a select of emit of which no case can proceed
Blocked(n, task) ==
    /\ sess[n].calls[task].pc \in {"drain", "final"}
    /\ readyCases(sess[n], task) = {}

\* C14: emit never blocks the calling task, for any number of tasks that
\* emit concurrently and also when the interface consumes nothing: no task
\* is ever in emit without a way to go on.
C14_EmitNeverBlocks ==
    \A n \in DOMAIN sess : \A task \in Tasks : ~Blocked(n, task)

----------------------------------------------------------------------------
(* Sessions that are shut down *)

\* the user of n types /quit: submit, start, handleCommand with its notice,
\* then shutdown up to the leave broadcast
Quit(n) ==
    /\ n \in DOMAIN sess
    /\ sess[n].started
    /\ sess[n].ui.pc = "idle"
    /\ sess[n].down \in {"idle", "done"} /\ ~sess[n].exited
    /\ sess[n].calls["ui"] = Idle
    /\ \E s1 \in {emitSystem(start(sess[n]), "goodbye")} :
          \E s \in {IF shutdownOnce(s1) THEN s1 ELSE shutdownLeave(s1)} :
              Commit(n, s, "quit", NoMsg, NoAddr, NoData, FALSE, net, {})
    /\ UNCHANGED chats

\* the interface of n ends and Run calls shutdown
Exit(n) ==
    /\ n \in DOMAIN sess
    /\ sess[n].started
    /\ sess[n].ui.pc = "idle"
    /\ sess[n].down \in {"idle", "done"} /\ ~sess[n].exited
    /\ sess[n].calls["ui"] = Idle
    /\ \E s1 \in {[sess[n] EXCEPT !.exited = TRUE]} :
          \E s \in {IF shutdownOnce(s1) THEN s1 ELSE shutdownLeave(s1)} :
              Commit(n, s, "exit", NoMsg, NoAddr, NoData, FALSE, net, {})
    /\ UNCHANGED chats

\* shutdown goes on: close sets the stop signal
ShutStop(n) ==
    /\ n \in DOMAIN sess
    /\ sess[n].down = "stop"
    /\ \E s \in {shutdownStop(sess[n])} :
          Commit(n, s, "stop", NoMsg, NoAddr, NoData, FALSE, net, {})
    /\ UNCHANGED chats

\* shutdown goes on: close closes the socket
ShutSocket(n) ==
    /\ n \in DOMAIN sess
    /\ sess[n].down = "sock"
    /\ \E s \in {shutdownSocket(sess[n])} :
          Commit(n, s, "unbind", NoMsg, NoAddr, NoData, FALSE, net, {})
    /\ UNCHANGED chats

\* shutdown ends: the event queue is closed
ShutEvents(n) ==
    /\ n \in DOMAIN sess
    /\ sess[n].down = "events"
    /\ \E s \in {shutdownEvents(sess[n])} :
          Commit(n, s, "finish", NoMsg, NoAddr, NoData, FALSE, net, {})
    /\ UNCHANGED chats

\* after the stop signal a read of the read loop of n fails, on the closed
\* socket, or times out, when no datagram has arrived
ReadStop(n) ==
    /\ n \in DOMAIN sess
    /\ sess[n].started
    /\ ~sess[n].loopDone
    /\ sess[n].calls["loop"] = Idle
    /\ sess[n].closed
    /\ sess[n].sockClosed \/ ~\E d \in DOMAIN net : Reads(sess[n].conn, d.dst)
    /\ \E s \in {readStopped(sess[n])} :
          Commit(n, s, "readstop", NoMsg, NoAddr, NoData, FALSE, net, {})
    /\ UNCHANGED chats

StopNext ==
    \E n \in Nodes : \/ Start(n) \/ Recv(n) \/ Handle(n)
                     \/ Quit(n) \/ Exit(n)
                     \/ ShutStop(n) \/ ShutSocket(n) \/ ShutEvents(n) \/ ReadStop(n)

StopInit == InitOf({PairCfg})

\* two nodes whose users leave, with /quit or by ending the interface
StopSpec == StopInit /\ [][StopNext]_vars

\* what start and shutdown have done at n so far is done once
DoneOnce(n) ==
    /\ sess[n].count.loops <= 1 /\ sess[n].count.leaves <= 1
    /\ sess[n].count.sock <= 1 /\ sess[n].count.events <= 1
    /\ ~sess[n].crashed
    /\ sess[n].started => sess[n].count.loops = 1
    /\ sess[n].down = "done" =>
          /\ sess[n].count.leaves = 1 /\ sess[n].count.sock = 1
          /\ sess[n].count.events = 1
          /\ sess[n].closed /\ sess[n].sockClosed /\ sess[n].evClosed

\* a step of n in which start and shutdown were called again
CalledAgain(n) ==
    /\ last'.node = n /\ last'.op \in {"quit", "exit"}
    /\ sess[n].started /\ shutdownOnce(sess[n])

\* C15: start and shutdown are latched. The read loop is launched once and
\* the joins of start are sent once; shutdown broadcasts one leave, closes
\* the socket once and the event queue once; a later call changes nothing
\* and does not panic.
C15_Latched ==
    /\ [](\A n \in DOMAIN sess : DoneOnce(n))
    /\ [][\A n \in DOMAIN sess :
            /\ (last'.node = n /\ last'.op = "quit") =>
                   \A d \in Range(last'.sent) : Unmarshal(d.data).msg.kind = "leave"
            /\ CalledAgain(n) =>
                   /\ last'.sent = <<>> /\ last'.emitted = <<>>
                   /\ sess'[n] = [sess[n] EXCEPT !.exited = @ \/ last'.op = "exit"]]_vars

\* Run calls shutdown after the shutdown of /quit has ended
C15_Witness ==
    /\ last.op = "exit"
    /\ sess[last.node].down = "done" /\ sess[last.node].exited
    /\ sess[last.node].count.leaves = 1
    /\ \E m \in DOMAIN sess : m # last.node /\ ~Active(m, last.node)

----------------------------------------------------------------------------
(* Events that are emitted while the session is shut down *)

RaceNext ==
    \E n \in Nodes : \/ Start(n) \/ Type(n) \/ Garble(n) \/ Discard(n) \/ Emit(n)
                     \/ Quit(n)
                     \/ ShutStop(n) \/ ShutSocket(n) \/ ShutEvents(n) \/ ReadStop(n)

\* one node whose interface consumes no event and whose user leaves with
\* /quit, while the read loop and the interface emit
RaceSpec == QueueInit /\ [][RaceNext]_vars

\* a shutdown that has begun goes on, and a task that can go on in emit
\* does: both are goroutines that the scheduler runs; a read ends after one
\* second at most, by the deadline that the loop sets before it
RaceFairSpec ==
    /\ RaceSpec
    /\ \A n \in Nodes :
          /\ WF_vars(ShutStop(n)) /\ WF_vars(ShutSocket(n)) /\ WF_vars(ShutEvents(n))
          /\ \A task \in Tasks : WF_vars(EmitOf(n, task))
          /\ WF_vars(ReadStop(n))

\* the task of n takes a step in emit
EmitStepOf(n, task) ==
    /\ last'.op = "emit" /\ last'.node = n
    /\ sess'[n].calls[task] # sess[n].calls[task]

\* what a step in emit may do once the stop signal is set: the first select
\* returns; no select is without a case that can proceed; nothing is added
\* to a closed queue
SafeStep(n, task) ==
    /\ sess[n].calls[task].pc = "check" =>
           /\ sess'[n].calls[task] = Idle
           /\ sess'[n].events = sess[n].events /\ last'.emitted = <<>>
    /\ sess[n].evClosed =>
           /\ Len(sess'[n].events) <= Len(sess[n].events) /\ last'.emitted = <<>>
           /\ sess[n].calls[task].pc \in {"send", "final"} =>
                  sess'[n].calls[task] = Idle
    /\ last'.emitted # <<>> => sess'[n].calls[task] = Idle

\* C17 as stated: once the stop signal is set, a step of emit enqueues
\* nothing.
C17_NoEnqueueOnceStopped ==
    [][\A n \in DOMAIN sess : \A task \in Tasks :
          (EmitStepOf(n, task) /\ sess[n].closed) => last'.emitted = <<>>]_vars

\* C17: no panic leaves emit, during shutdown or after it; with the stop
\* signal set no task waits in emit without a case to go on, and a task
\* that is in emit when shutdown has begun returns; an emit that reaches
\* its first select with the stop signal set returns without enqueuing;
\* a send on the closed queue is swallowed and the task returns. An emit
\* that is past its first select when the stop signal is set may still
\* enqueue its event, as long as the queue is open.
C17_EmitDuringShutdown ==
    /\ [](\A n \in DOMAIN sess :
            /\ ~sess[n].crashed
            /\ sess[n].closed => \A task \in Tasks : ~Blocked(n, task))
    /\ [][\A n \in DOMAIN sess : \A task \in Tasks :
            (EmitStepOf(n, task) /\ sess[n].closed) => SafeStep(n, task)]_vars
    /\ \A n \in DOMAIN SoloCfg : \A task \in Tasks :
          (sess[n].down # "idle" /\ sess[n].calls[task] # Idle)
              ~> (sess[n].calls[task] = Idle)

\* the read loop has sent on the closed queue and has returned from emit
C17_Witness ==
    /\ last.op = "emit" /\ last.emitted = <<>>
    /\ sess[last.node].evClosed /\ ~sess[last.node].crashed
    /\ sess[last.node].swallowed
    /\ sess[last.node].calls["loop"] = Idle
    /\ sess[last.node].discarded > 0
    /\ \A i \in DOMAIN sess[last.node].events :
          sess[last.node].events[i].body # Text("discarded malformed packet")

\* the steps of shutdown at n have happened in their order
Ordered(n) ==
    /\ sess[n].sockClosed => sess[n].closed /\ sess[n].count.leaves = 1
    /\ sess[n].evClosed => sess[n].closed /\ sess[n].sockClosed

\* the endpoints n holds Active, the local node apart
ActiveEndpoints(n) == { sess[n].members[k].endpoint : k \in ActivePeers(n) }

\* a step of n that is the first call of shutdown
ShutdownBegins(n) ==
    /\ last'.node = n /\ last'.op \in {"quit", "exit"}
    /\ ~shutdownOnce(sess[n])

\* C16: shutdown writes the leave envelope to every endpoint that is Active,
\* once each and with the socket open, sets the stop signal before it closes
\* the event queue, and no datagram is written once the socket is closed.
C16_ShutdownOrder ==
    /\ [](\A n \in DOMAIN sess : Ordered(n))
    /\ [][\A n \in DOMAIN sess :
            /\ ShutdownBegins(n) =>
                   /\ ~sess[n].sockClosed /\ ~sess'[n].sockClosed
                   /\ ~sess'[n].closed /\ ~sess'[n].evClosed
                   /\ { d.dst : d \in Range(last'.sent) } = ActiveEndpoints(n)
                   /\ Len(last'.sent) = Cardinality(ActiveEndpoints(n))
                   /\ \A d \in Range(last'.sent) :
                          Unmarshal(d.data).msg.kind = "leave"
            /\ (last'.node = n /\ sess[n].sockClosed) => last'.sent = <<>>]_vars

\* a join is handled on a closed socket, after the other node has left with
\* a leave to this one
C16_Witness ==
    /\ last.op = "handle" /\ last.msg.kind = "join"
    /\ sess[last.node].sockClosed /\ last.sent = <<>>
    /\ \E m \in DOMAIN sess :
          /\ m # last.node /\ sess[m].sockClosed
          /\ \E d \in DOMAIN net :
                d.src = Addr(m) /\ d.dst = Addr(last.node)
                /\ Unmarshal(d.data).msg.kind = "leave"

----------------------------------------------------------------------------
(* Reads that fail *)

ReadErrors ==
    LET errs(n) == IF n \in DOMAIN sess THEN sess[n].count.errs ELSE 0
    IN  errs("A") + errs("B") + errs("C")

\* a read of the socket of n fails with an error that is no timeout
ReadError(n) ==
    /\ n \in DOMAIN sess
    /\ sess[n].started
    /\ ~sess[n].loopDone
    /\ sess[n].calls["loop"] = Idle
    /\ ReadErrors < MaxReadErrors
    /\ \E s \in {readFailed(sess[n])} :
          Commit(n, s, "readerr", NoMsg, NoAddr, NoData, FALSE, net, {})
    /\ UNCHANGED chats

ErrNext ==
    \E n \in Nodes : Start(n) \/ Submit(n) \/ Recv(n) \/ Handle(n) \/ ReadError(n)

\* two nodes whose reads can fail
ErrSpec == PairInit /\ [][ErrNext]_vars

\* the one notice of a failed read
ReadErrorNotice == Message(NoId, "", "system", Text("read error"))

\* C18: a read that fails with an error that is no timeout while the stop
\* signal is not set makes the read loop emit one system notice and nothing
\* else: nothing is written, no handler is started, the tables are as they
\* were and the loop goes on reading, so that the packets read afterwards
\* are decoded, deduplicated, verified and dispatched as without the error.
C18_ReadErrorSurvived ==
    /\ [](\A n \in DOMAIN sess : ~sess[n].closed => ~sess[n].loopDone)
    /\ [][\A n \in DOMAIN sess :
            (last'.node = n /\ last'.op = "readerr" /\ ~sess[n].closed) =>
                /\ last'.emitted = <<ReadErrorNotice>>
                /\ last'.sent = <<>> /\ last'.spawn = <<>> /\ last'.hinted = <<>>
                /\ sess'[n] = [sess[n] EXCEPT
                                  !.events = Append(@, ReadErrorNotice),
                                  !.count.errs = @ + 1]
                /\ tasks' = tasks /\ net' = net]_vars

\* after a failed read the loop has read a join and started its handler
C18_Witness ==
    /\ last.op = "recv" /\ last.msg.kind = "join"
    /\ sess[last.node].count.errs > 0
    /\ Len(last.spawn) = 1 /\ ~last.known

----------------------------------------------------------------------------
(* The end of the read loop *)

\* C19: once the stop signal is set the read loop ends, whether it was
\* waiting in a read, handling a datagram or in emit at that moment.
C19_LoopEnds ==
    \A n \in DOMAIN SoloCfg : sess[n].closed ~> sess[n].loopDone

\* the loop has ended after the stop signal found it in emit, sending
C19_Witness ==
    /\ last.op = "readstop"
    /\ sess[last.node].loopDone /\ sess[last.node].swallowed

----------------------------------------------------------------------------
(* /switch next to the read loop and the handlers *)

\* the /switch of n is between its leave broadcast and its last step
Switching(n) == sess[n].ui.pc # "idle"

\* the read loop or a handler of n takes a step that acts on what it finds
\* or changes the membership table
Interferes(n) ==
    /\ last'.node = n /\ last'.op \in {"recv", "handle"}
    /\ \/ sess'[n].members # sess[n].members
       \/ last'.sent # <<>> \/ last'.emitted # <<>> \/ last'.spawn # <<>>

\* C20: the mutating part of /switch is atomic for the read loop and the
\* handlers: none of them acts on a state between two steps of /switch, or
\* changes the membership table there.
C20_SwitchAtomic ==
    [][\A n \in DOMAIN sess : Switching(n) => ~Interferes(n)]_vars

----------------------------------------------------------------------------
(* /switch with no step of another task inside it *)

\* the user of n types /switch <profile> and switchConfig runs to its end
\* before any other task of n takes a step
SwitchWhole(n) ==
    /\ n \in DOMAIN sess
    /\ sess[n].started
    /\ sess[n].ui.pc = "idle"
    /\ sess[n].down \in {"idle", "done"} /\ ~sess[n].exited
    /\ Switches < MaxSwitches
    /\ \E cfg \in Profiles(n) \cup {NoProfile} :
          \E s \in {switchConfig(sess[n], cfg)} :
              Commit(n, s, "switchall", NoMsg, NoAddr, NoData, FALSE, net, {})
    /\ UNCHANGED chats

ProfileNext ==
    \E n \in Nodes : Start(n) \/ Recv(n) \/ Handle(n) \/ SwitchWhole(n)

\* the writes to one of the nodes fail in some behaviours
ProfileInit == InitFrom({PairCfg, SecureCfg}, {{}, {Addr("A")}, {Addr("B")}})

\* two nodes whose users switch profiles, a switch being one step
ProfileSpec == ProfileInit /\ [][ProfileNext]_vars

\* the step is a /switch of n that was not refused
Switched(n) ==
    /\ last'.node = n /\ last'.op = "switchall"
    /\ \E i \in DOMAIN last'.emitted :
          last'.emitted[i] = Message(NoId, "", "system", Text("switched"))

\* the record of the table for a peer of the profile: Active with its
\* endpoint when the join was written to it, Pending without when not
PeerRecord(s, addr, name) ==
    IF addr \in s.unreach THEN member(addr, name, "Pending", NoAddr)
    ELSE member(addr, name, "Active", addr)

\* the table that a /switch of s to the peers leaves
SwitchedTable(s, peers) ==
    [k \in {s.localAddr} \cup Range(peers) |->
        IF k = s.localAddr THEN member(k, s.cfg.name, "Active", k)
        ELSE PeerRecord(s, k, "")]

\* C21: after a /switch that was not refused and that no other task of the
\* node interleaved with, the membership table holds the local entry and the
\* resolved peers of the profile, Active where the join was written and
\* Pending where the write failed, and nobody else; the bootstrap list is
\* the list of the resolved peers and the stored configuration is the
\* profile.
C21_SwitchResets ==
    [][\A n \in DOMAIN sess :
          Switched(n) =>
              /\ sess'[n].members = SwitchedTable(sess'[n], sess'[n].cfg.peers)
              /\ sess'[n].bootstrap = sess'[n].cfg.peers
              /\ sess'[n].cfgName = sess'[n].cfg.name
              /\ sess'[n].cipher = sess'[n].cfg.secret]_vars

\* A held B Active, and after its /switch to the profile with no peers the
\* table of A has the local entry only
C21_Witness ==
    /\ last.op = "switchall" /\ last.node = "A"
    /\ sess["A"].cfg.name = "zed"
    /\ DOMAIN sess["A"].members = {Addr("A")}
    /\ \E d \in Range(last.sent) :
          d.dst = Addr("B") /\ Unmarshal(d.data).msg.kind = "leave"

----------------------------------------------------------------------------
(* The order of the steps of /switch *)

\* the envelope is in the form that prepare gives it under the key
SealedUnder(m, key) ==
    IF key = NoKey THEN m.cipher = EmptyStr /\ m.nonce = EmptyStr
    ELSE /\ m.body = EmptyStr /\ m.cipher # EmptyStr
         /\ B64Decode(m.cipher).data.key = key

\* the step is the begin of a /switch of n that is not refused
SwitchBegins(n) ==
    last'.node = n /\ last'.op = "switch" /\ sess'[n].ui.pc = "swap"

\* the step is the last one of a /switch of n
SwitchEnds(n) == last'.node = n /\ last'.op = "rejoin"

\* C22: /switch writes its leave to the peers that are Active when it
\* begins, under the cipher and the name of the previous profile and with
\* the membership table not yet reset; the steps that swap the cipher and
\* reset the table write nothing; the joins are written last, to the peers
\* of the profile, each encrypted exactly when the secret of the profile is
\* not empty.
C22_SwitchOrder ==
    [][\A n \in DOMAIN sess :
          /\ SwitchBegins(n) =>
                /\ { d.dst : d \in Range(last'.sent) } = ActiveEndpoints(n)
                /\ Len(last'.sent) = Cardinality(ActiveEndpoints(n))
                /\ \A d \in Range(last'.sent) :
                      /\ Unmarshal(d.data).msg.kind = "leave"
                      /\ Unmarshal(d.data).msg.from = sess[n].cfg.name
                      /\ SealedUnder(Unmarshal(d.data).msg, sess[n].cipher)
                /\ sess'[n].cipher = sess[n].cipher
                /\ sess'[n].members = sess[n].members
          /\ (last'.node = n /\ last'.op \in {"swap", "reset"}) => last'.sent = <<>>
          /\ SwitchEnds(n) =>
                /\ sess[n].cipher = sess[n].ui.cfg.secret
                /\ { d.dst : d \in Range(last'.sent) } = Range(sess[n].ui.resolved)
                /\ \A d \in Range(last'.sent) :
                      /\ Unmarshal(d.data).msg.kind = "join"
                      /\ SealedUnder(Unmarshal(d.data).msg, sess[n].ui.cfg.secret)]_vars

\* a node without secret has switched to a profile with one: its leave to
\* the other node is in plaintext, its join to it is encrypted
C22_Witness ==
    /\ last.op = "rejoin"
    /\ \E d \in Range(last.sent) :
          /\ d.dst # Addr(last.node)
          /\ Unmarshal(d.data).msg.kind = "join"
          /\ Unmarshal(d.data).msg.cipher # EmptyStr
          /\ \E l \in DOMAIN net :
                /\ l.src = d.src /\ l.dst = d.dst
                /\ Unmarshal(l.data).msg.kind = "leave"
                /\ Unmarshal(l.data).msg.cipher = EmptyStr

----------------------------------------------------------------------------
(* A /switch that is refused *)

\* the step is a /switch of n that is refused
SwitchRefused(n) ==
    last'.node = n /\ last'.op = "switch" /\ sess'[n].ui.pc = "idle"

\* the notices of a refused /switch
Refusals ==
    { Message(NoId, "", "system", Text(text)) :
        text \in {"failed to load config", "restart required"} }

\* C23: a /switch for a profile that the store does not hold, or for a
\* profile with another listen address than the one of the session, emits one
\* notice that says so and changes nothing else; no datagram is written.
C23_RefusedSwitch ==
    [][\A n \in DOMAIN sess :
          SwitchRefused(n) =>
              /\ last'.sent = <<>> /\ net' = net /\ tasks' = tasks
              /\ Len(last'.emitted) = 1 /\ last'.emitted[1] \in Refusals
              /\ sess'[n] = [sess[n] EXCEPT
                                !.events = Append(@, last'.emitted[1]),
                                !.ui.count = @ + 1]]_vars

\* a node that holds the other one Active was refused a profile for another
\* listen address
C23_Witness ==
    /\ last.op = "switch" /\ sess[last.node].ui.pc = "idle"
    /\ last.emitted = <<Message(NoId, "", "system", Text("restart required"))>>
    /\ ActivePeers(last.node) # {}

----------------------------------------------------------------------------
(* Writes that fail *)

\* two and three nodes; the writes to A fail, or the writes to B
LossInit == InitFrom({PairCfg, TrioCfg}, {{Addr("A")}, {Addr("B")}})

LossSpec == LossInit /\ [][Next]_vars

\* the step of n wrote direct joins, a broadcast or the copies of a gossip
\* forward, and nothing else
WritesToPeers(n) ==
    /\ last'.node = n
    /\ \/ last'.op \in {"start", "submit"}
       \/ last'.op = "handle" /\ last'.msg.kind \in {"chat", "leave"}

\* the session has dropped the peer after a failure: Pending, no endpoint
Dropped(s, addr) ==
    addr \in DOMAIN s.members =>
        /\ s.members[addr].status = "Pending"
        /\ s.members[addr].endpoint = NoAddr

\* C24: when the write of a direct join, of a broadcast or of a gossip
\* forward to a peer fails, the session emits a notice and drops the peer:
\* the member is Pending afterwards and has no cached endpoint.
C24_FailedWriteDrops ==
    [][\A n \in DOMAIN sess :
          WritesToPeers(n) =>
              \A addr \in Range(last'.failed) :
                  /\ \E e \in Range(last'.emitted) : e.kind = "system"
                  /\ Dropped(sess'[n], addr)]_vars

----------------------------------------------------------------------------
(* Envelopes of the local kinds on the wire *)

ForgedId(k) == <<"Y", k>>

\* an envelope of a kind that the nodes use for their own interface only
Forgery(k, kind) == Message(ForgedId(k), "eve", kind, Text("notice"))

\* the datagrams of this sort sent so far: in flight, or read by a node
Forged ==
    { k \in 1..MaxInjected :
        \/ \E d \in DOMAIN net : Unmarshal(d.data).msg.id = ForgedId(k)
        \/ \E n \in DOMAIN sess : ForgedId(k) \in sess[n].seen }

\* the outsider writes an envelope of kind system or prompt to the socket of n
Forge(n) ==
    /\ n \in DOMAIN sess
    /\ Cardinality(Forged) < MaxInjected
    /\ \E kind \in {"system", "prompt"} :
          \E d \in {Datagram(Outsider, sess[n].conn,
                               Marshal(Forgery(Cardinality(Forged) + 1, kind)))} :
              /\ net' = AddAll(net, <<d>>)
              /\ last' = [op |-> "forge", node |-> n, msg |-> Unmarshal(d.data).msg,
                          src |-> d.src, raw |-> d.data, known |-> FALSE,
                          sent |-> <<>>, emitted |-> <<>>, hinted |-> <<>>,
                          spawn |-> <<>>, failed |-> <<>>]
    /\ UNCHANGED <<sess, tasks, chats>>

ForgeNext == \E n \in Nodes : Start(n) \/ Recv(n) \/ Handle(n) \/ Forge(n)

\* the two-node deployments on sockets that an outsider writes to
ForgeSpec == PairInit /\ [][ForgeNext]_vars

\* the datagrams in flight that a node of the deployment wrote
Written == { d \in DOMAIN net : \E n \in DOMAIN sess : d.src = SourceOf(sess[n].conn) }

\* C25: no datagram that a node writes, its own or the copy of one that it
\* received, carries an envelope of kind system or prompt.
C25_LocalKinds ==
    \A d \in Written : Unmarshal(d.data).msg.kind \notin {"system", "prompt"}

----------------------------------------------------------------------------
(* The form of the envelopes on the wire *)

\* the envelope is in plaintext
Plain(m) == m.cipher = EmptyStr /\ m.nonce = EmptyStr

\* the envelope is encrypted
Ciphered(m) == m.body = EmptyStr /\ m.cipher # EmptyStr /\ m.nonce # EmptyStr

\* the envelopes that the step of n wrote and that n made itself
OwnEnvelopes(n) ==
    { Unmarshal(d.data).msg :
        d \in { x \in Range(last'.sent) : Unmarshal(x.data).msg.id[1] = n } }

----------------------------------------------------------------------------
(* Join envelopes and the events shown for them *)

KnockId(k) == <<"K", k>>

\* the bodies of the joins of the outsider: none, white space, a digest
KnockBodies == {EmptyStr, Blank, MarshalJoin(memberInfo(Outsider, "eve"), <<>>)}

\* the joins of the outsider sent so far: in flight, or read by a node
Knocked ==
    { k \in 1..MaxKnocks :
        \/ \E d \in DOMAIN net : Unmarshal(d.data).msg.id = KnockId(k)
        \/ \E n \in DOMAIN sess : KnockId(k) \in sess[n].seen }

\* the outsider writes a join envelope to the socket of n
Knock(n) ==
    /\ n \in DOMAIN sess
    /\ Cardinality(Knocked) < MaxKnocks
    /\ \E body \in KnockBodies :
          \E d \in {Datagram(Outsider, sess[n].conn,
                               Marshal(Message(KnockId(Cardinality(Knocked) + 1),
                                               "eve", "join", body)))} :
              /\ net' = AddAll(net, <<d>>)
              /\ last' = [op |-> "knock", node |-> n, msg |-> Unmarshal(d.data).msg,
                          src |-> d.src, raw |-> d.data, known |-> FALSE,
                          sent |-> <<>>, emitted |-> <<>>, hinted |-> <<>>,
                          spawn |-> <<>>, failed |-> <<>>]
    /\ UNCHANGED <<sess, tasks, chats>>

KnockNext == \E n \in Nodes : Start(n) \/ Recv(n) \/ Handle(n) \/ Knock(n)

\* the two-node deployments on sockets that an outsider sends joins to
KnockSpec == PairInit /\ [][KnockNext]_vars

\* the step handled a join envelope
JoinHandled == last'.op = "handle" /\ last'.msg.kind = "join"

\* the join events that the step placed on the event queue
JoinEvents == { e \in Range(last'.emitted) : e.kind = "join" }

\* the event is bare: no body, no cipher, no nonce
Bare(e) == e.body = EmptyStr /\ e.cipher = EmptyStr /\ e.nonce = EmptyStr

\* a join envelope with a body that is not empty is never shown as received,
\* and every join event shown for it is bare
C27_NoJoinBodyShown ==
    [][(JoinHandled /\ last'.msg.body # EmptyStr) =>
          /\ last'.msg \notin JoinEvents
          /\ \A e \in JoinEvents : Bare(e)]_vars

\* C27: no join event on the event queue carries a membership digest: a join
\* envelope whose body is more than white space is never shown as received,
\* and every join event shown for it has body, cipher and nonce empty; a join
\* whose body is empty or white space is shown once, bare when it activated
\* its sender and as received otherwise.
C27_NoDigestShown ==
    [][JoinHandled =>
          /\ \A e \in JoinEvents : e.body.fmt # "json"
          /\ IF TrimSpace(last'.msg.body) # EmptyStr
             THEN /\ last'.msg \notin JoinEvents
                  /\ \A e \in JoinEvents : Bare(e)
             ELSE /\ Cardinality(JoinEvents) = 1
                  /\ \A e \in JoinEvents : Bare(e) \/ e = last'.msg]_vars

\* a join with a digest activated its sender and the bare copy was shown
C27_Witness ==
    /\ last.op = "handle" /\ last.msg.kind = "join"
    /\ last.msg.body.fmt = "json"
    /\ \E i \in DOMAIN last.emitted :
          /\ last.emitted[i].kind = "join" /\ last.emitted[i].from = last.msg.from
          /\ last.emitted[i].body = EmptyStr /\ last.emitted[i].cipher = EmptyStr

\* a join of white space from a sender that is Active was shown as received
C27_BlankShown ==
    /\ last.op = "handle" /\ last.msg.kind = "join"
    /\ last.msg.body = Blank
    /\ \E i \in DOMAIN last.emitted : last.emitted[i] = last.msg

----------------------------------------------------------------------------
(* A node without bootstrap peers *)

\* the configuration of n lists no peer
NoBootstrap(n) == sess[n].cfg.peers = <<>>

\* the membership table holds the local entry and nothing else
OnlyLocal(s) ==
    /\ DOMAIN s.members = {s.localAddr}
    /\ s.members[s.localAddr].status = "Active"

\* C29: a node whose configuration lists no peer is initialised with an empty
\* bootstrap list and with the local entry as its only member; its Start
\* launches the read loop and writes no datagram, neither a direct join nor a
\* broadcast, to any address, and leaves the local entry the only member.
C29_EmptyBootstrap ==
    /\ [](\A n \in DOMAIN sess :
            (NoBootstrap(n) /\ ~sess[n].started) =>
                /\ sess[n].bootstrap = <<>>
                /\ sess[n].conn # NoAddr /\ ~sess[n].closed
                /\ OnlyLocal(sess[n]))
    /\ [][\A n \in DOMAIN sess :
            (NoBootstrap(n) /\ last'.op = "start" /\ last'.node = n) =>
                /\ sess'[n].started /\ sess'[n].count.loops = 1
                /\ last'.sent = <<>> /\ last'.failed = <<>>
                /\ net' = net
                /\ OnlyLocal(sess'[n])]_vars

\* the node without peers has started while a node that lists it has not
C29_Witness ==
    /\ last.op = "start" /\ NoBootstrap(last.node)
    /\ sess[last.node].started
    /\ \E m \in DOMAIN sess : m # last.node /\ ~NoBootstrap(m)

----------------------------------------------------------------------------
(* markActive on a member that is Active *)

\* the socket addresses that markActive is called with
MarkAddrs == {Addr("A"), Addr("B"), Outsider, [ip |-> "0.0.0.0", port |-> 4002]}

\* the names that markActive is called with
MarkNames == {"", NameOf("A"), NameOf("B"), "eve"}

\* the member of the address is Active and has the name
ActiveAs(s, addr, name) ==
    \E k \in {canonicalNetAddr(addr)} :
        /\ k \in DOMAIN s.members
        /\ s.members[k].status = "Active"
        /\ s.members[k].name = name

\* a task of n calls markActive; the record of the step keeps whether the
\* member was Active under that name before
Mark(n) ==
    /\ n \in DOMAIN sess
    /\ sess[n].started
    /\ sess[n].count.marks < MaxMarks
    /\ \E addr \in MarkAddrs, name \in MarkNames :
        \E r \in {markActive([sess[n] EXCEPT !.count.marks = @ + 1], addr, name)} :
            Commit(n, r.s, "mark", NoMsg, addr, NoData,
                   ActiveAs(sess[n], addr, name), net, {})
    /\ UNCHANGED chats

MarkNext == \E n \in Nodes : Start(n) \/ Recv(n) \/ Handle(n) \/ Mark(n)

\* the plaintext pair whose tasks mark members Active
MarkSpec == InitOf({PairCfg}) /\ [][MarkNext]_vars

\* C30: when the member of address a is Active and has name n, markActive(a, n)
\* returns changed = false and leaves the session as it is: status, name,
\* address key and cached endpoint of the member, and every other member.
C30_MarkActiveIdempotent ==
    \A n \in DOMAIN sess : \A addr \in MarkAddrs, name \in MarkNames :
        ActiveAs(sess[n], addr, name) =>
            \E r \in {markActive(sess[n], addr, name)} :
                /\ ~r.changed
                /\ r.s.members = sess[n].members
                /\ r.s = sess[n]

\* markActive was called for a peer that was Active under the name already
C30_Witness ==
    /\ last.op = "mark" /\ last.known
    /\ last.src # sess[last.node].localAddr
    /\ ActiveAs(sess[last.node], last.src, NameOf("B"))

----------------------------------------------------------------------------
(* The locks of the session: membersMu, statusMu and the lock of the transport *)

Mutexes == {"members", "status", "transport"}

\* the interface task and two handler tasks of the read loop
LockTasks == {"ui", "in1", "in2"}

Op(act, mu) == [act |-> act, mu |-> mu]

\* mu.RLock() ... mu.RUnlock() around code that calls nothing
RLocked(mu) == <<Op("RLock", mu), Op("RUnlock", mu)>>

\* mu.Lock() ... mu.Unlock() around code that calls nothing: Lock announces
\* the writer, which holds off new readers, and returns once the lock is free
Locked(mu) == <<Op("Lock", mu), Op("Acquire", mu), Op("Unlock", mu)>>

emitOps == <<Op("emit", "none")>>

sendRawOps == <<Op("write", "none")>>

isLocalOps == RLocked("members")

localInfoOps == RLocked("members")

hasMemberOps == isLocalOps \o RLocked("members")

activeAddrsOps == RLocked("members")

activeInfosOps == RLocked("members")

membersSnapshotOps == RLocked("members")

resetMembershipOps == Locked("members")

addPendingMemberOps == isLocalOps \o Locked("members")

markMemberActiveOps == isLocalOps \o Locked("members")

setMemberEndpointOps == Locked("members")

markMemberFailedOps == isLocalOps \o Locked("members")

recordEventOps == Locked("status")

lastEventValueOps == RLocked("status")

currentCipherOps == RLocked("transport")

setCipherOps == Locked("transport")

setNameOps == Locked("transport")

prepareOps == currentCipherOps

sendDirectOps == prepareOps \o sendRawOps

\* a forwardRaw that writes while it reads the membership table
forwardRawHoldingOps ==
    <<Op("RLock", "members")>> \o sendRawOps \o emitOps \o <<Op("RUnlock", "members")>>

\* forwardRaw: the endpoints are collected under the lock, the writes and the
\* notice of a failed write come after it
forwardRawOps == RLocked("members") \o sendRawOps \o emitOps

broadcastOps == prepareOps \o emitOps \o forwardRawOps

markPendingOps == addPendingMemberOps \o recordEventOps

markActiveOps == setMemberEndpointOps \o markMemberActiveOps \o recordEventOps

dropPeerOps == markMemberFailedOps \o recordEventOps

buildJoinPayloadOps == localInfoOps \o activeInfosOps

collectUnknownOps ==
    isLocalOps \o markMemberActiveOps \o hasMemberOps \o addPendingMemberOps

processJoinPayloadOps ==
    isLocalOps \o markMemberActiveOps \o collectUnknownOps \o activeInfosOps

contactPeerOps ==
    isLocalOps \o hasMemberOps \o addPendingMemberOps \o isLocalOps
    \o setMemberEndpointOps \o buildJoinPayloadOps \o markPendingOps
    \o sendDirectOps \o emitOps \o dropPeerOps

peersSummaryOps == membersSnapshotOps \o currentCipherOps \o lastEventValueOps

\* submit of a line of chat
submitOps == broadcastOps

\* /switch to a profile with one peer
switchConfigOps ==
    activeAddrsOps \o broadcastOps \o setCipherOps \o setNameOps \o emitOps
    \o resetMembershipOps \o buildJoinPayloadOps \o markPendingOps
    \o sendDirectOps \o emitOps \o dropPeerOps \o markActiveOps
    \o broadcastOps \o emitOps \o recordEventOps

\* handleIncoming of a chat envelope
handleChatOps == markActiveOps \o emitOps \o forwardRawOps

\* handleIncoming of a join envelope with a digest that hints a peer
handleJoinOps ==
    processJoinPayloadOps \o sendDirectOps \o emitOps \o contactPeerOps
    \o markActiveOps \o emitOps \o forwardRawOps

\* handleIncoming of an error envelope
handleErrorOps == dropPeerOps \o emitOps

\* what a task may run
Programs(task) ==
    IF task = "ui" THEN {submitOps, switchConfigOps, peersSummaryOps}
    ELSE {handleChatOps, handleJoinOps, handleErrorOps}

\* the task holds the lock, shared or exclusive
Holds(s, task, mu) == task \in s.mu[mu].readers \/ s.mu[mu].writer = task

\* the next operation of the task can proceed
CanStep(s, task) ==
    /\ s.run[task] # <<>>
    /\ \E op \in {Head(s.run[task])} :
          CASE op.act = "RLock" ->
                 s.mu[op.mu].writer = "" /\ s.mu[op.mu].waiting = {}
            [] op.act = "Acquire" ->
                 s.mu[op.mu].writer = "" /\ s.mu[op.mu].readers = {}
            [] OTHER -> TRUE

\* the effect of the next operation of the task
lockStep(s, task) ==
    Only({ Only({ CASE op.act = "RLock" ->
                         [s1 EXCEPT !.mu[op.mu].readers = @ \cup {task}]
                    [] op.act = "RUnlock" ->
                         [s1 EXCEPT !.mu[op.mu].readers = @ \ {task}]
                    [] op.act = "Lock" ->
                         [s1 EXCEPT !.mu[op.mu].waiting = @ \cup {task}]
                    [] op.act = "Acquire" ->
                         [s1 EXCEPT !.mu[op.mu].waiting = @ \ {task},
                                    !.mu[op.mu].writer = task]
                    [] op.act = "Unlock" ->
                         [s1 EXCEPT !.mu[op.mu].writer = ""]
                    [] OTHER -> s1
                  : s1 \in {[s EXCEPT !.run[task] = Tail(@)]} })
           : op \in {Head(s.run[task])} })

\* a task that runs nothing begins one of its handlers
LockBegin(n, task) ==
    /\ n \in DOMAIN sess
    /\ sess[n].run[task] = <<>>
    /\ \E prog \in Programs(task) :
          \E s \in {[sess[n] EXCEPT !.run[task] = prog]} :
              Commit(n, s, "begin", NoMsg, NoAddr, NoData, FALSE, net, {})
    /\ UNCHANGED chats

\* a task takes the next step of its handler
LockStep(n, task) ==
    /\ n \in DOMAIN sess
    /\ CanStep(sess[n], task)
    /\ \E s \in {lockStep(sess[n], task)} :
          Commit(n, s, "lock", NoMsg, NoAddr, NoData, FALSE, net, {})
    /\ UNCHANGED chats

LockNext == \E n \in Nodes, task \in LockTasks : LockBegin(n, task) \/ LockStep(n, task)

\* one node whose interface task and handler tasks run side by side
LockSpec == QueueInit /\ [][LockNext]_vars

\* C28: a task that holds the membership lock acquires no lock; a task that
\* holds the membership, status or transport lock neither emits an event nor
\* writes a datagram; and whenever a task is inside a handler, some task can
\* take its next step, so submit, /switch and the handlers of inbound packets
\* never deadlock on the locks.
C28_LockDiscipline ==
    \A n \in DOMAIN sess :
        /\ \A task \in LockTasks :
              /\ Holds(sess[n], task, "members") =>
                    /\ sess[n].run[task] # <<>>
                    /\ Head(sess[n].run[task]).act \in {"RUnlock", "Unlock"}
              /\ \A mu \in Mutexes :
                    Holds(sess[n], task, mu) =>
                        /\ sess[n].run[task] # <<>>
                        /\ Head(sess[n].run[task]).act \notin {"emit", "write"}
        /\ (\E task \in LockTasks : sess[n].run[task] # <<>>) =>
              \E task \in LockTasks : CanStep(sess[n], task)

\* /switch holds the membership lock for resetMembership while one handler
\* waits to read the table and the other is about to emit
C28_Witness ==
    \E n \in DOMAIN sess :
        /\ sess[n].mu["members"].writer = "ui"
        /\ sess[n].run["in1"] # <<>>
        /\ Head(sess[n].run["in1"]) = Op("RLock", "members")
        /\ ~CanStep(sess[n], "in1")
        /\ sess[n].run["in2"] # <<>>
        /\ Head(sess[n].run["in2"]).act = "emit"

----------------------------------------------------------------------------
(* A node leaves a mesh of three *)

LeaveNext == (\E n \in Nodes : Start(n) \/ Recv(n) \/ Handle(n)) \/ Quit("A")

\* three nodes that find each other through A, whose user may /quit
LeaveSpec == InitOf({TrioCfg}) /\ [][LeaveNext]_vars

\* the address of the node that made the envelope
OriginOf(msg) == Addr(msg.id[1])

\* the handler of n took a leave envelope of a named sender
LeaveHandled(n) ==
    /\ last'.node = n /\ last'.op = "handle"
    /\ last'.msg.kind = "leave" /\ last'.msg.from # ""

\* C31: the handler of a leave envelope removes the node that made it and no
\* other: after the step the originator is no member of the receiver, and a
\* node that only forwarded the envelope is still the member it was.
C31_LeaveRemovesOrigin ==
    [][\A n \in DOMAIN sess :
          LeaveHandled(n) =>
              /\ OriginOf(last'.msg) \notin DOMAIN sess'[n].members
              /\ \A k \in DOMAIN sess[n].members :
                    k # OriginOf(last'.msg) =>
                        /\ k \in DOMAIN sess'[n].members
                        /\ sess'[n].members[k] = sess[n].members[k]]_vars

\* the handler took the copy that the originator wrote itself, and the
\* originator is gone from the table
C31_DirectCopy ==
    /\ last.op = "handle" /\ last.msg.kind = "leave"
    /\ last.src = OriginOf(last.msg)
    /\ last.src \notin DOMAIN sess[last.node].members

\* the handler took the copy that another node forwarded: the forwarder is
\* gone from the table and the originator is still Active
C31_ForwardedCopy ==
    /\ last.op = "handle" /\ last.msg.kind = "leave"
    /\ last.src # OriginOf(last.msg)
    /\ last.src \notin DOMAIN sess[last.node].members
    /\ OriginOf(last.msg) \in DOMAIN sess[last.node].members
    /\ sess[last.node].members[OriginOf(last.msg)].status = "Active"

----------------------------------------------------------------------------
(* The seen-set and envelopes that fail verification *)

\* an envelope with the id of m that the receiver of m refuses: in plaintext
\* when m is encrypted, with a cipher field when m is in plaintext
SpoofOf(m) ==
    IF m.cipher # EmptyStr THEN Message(m.id, "eve", "chat", Text("x"))
    ELSE [Message(m.id, "eve", "chat", EmptyStr) EXCEPT
            !.cipher = B64Encode(Encrypt("x", m.id, Text("x"))),
            !.nonce  = B64Encode(m.id)]

\* the outsider has seen a join on its way to n and writes an envelope with
\* the same id to the socket of n
Spoof(n) ==
    /\ n \in DOMAIN sess
    /\ \E g \in DOMAIN net :
          /\ g.dst = sess[n].conn /\ g.src # Outsider
          /\ Unmarshal(g.data).ok
          /\ Unmarshal(g.data).msg.kind = "join"
          /\ Unmarshal(g.data).msg.id \notin sess[n].seen
          /\ ~\E x \in DOMAIN net :
                x.src = Outsider /\ Unmarshal(x.data).msg.id = Unmarshal(g.data).msg.id
          /\ \E d \in {Datagram(Outsider, sess[n].conn,
                                 Marshal(SpoofOf(Unmarshal(g.data).msg)))} :
                /\ net' = AddAll(net, <<d>>)
                /\ last' = [op |-> "spoof", node |-> n, msg |-> Unmarshal(d.data).msg,
                            src |-> d.src, raw |-> d.data, known |-> FALSE,
                            sent |-> <<>>, emitted |-> <<>>, hinted |-> <<>>,
                            spawn |-> <<>>, failed |-> <<>>]
    /\ UNCHANGED <<sess, tasks, chats>>

SpoofNext == \E n \in Nodes : Start(n) \/ Recv(n) \/ Handle(n) \/ Spoof(n)

\* two nodes, in plaintext or with a shared secret, or three in plaintext,
\* and an outsider that repeats the ids of their joins
SpoofSpec == InitOf({PairCfg, SecureCfg, TrioCfg}) /\ [][SpoofNext]_vars

\* the read loop of n read an envelope from another host that passes
\* verification
ValidRead(n) ==
    /\ last'.node = n /\ last'.op = "recv"
    /\ Unmarshal(last'.raw).ok
    /\ last'.msg.id[1] # n
    /\ ~verifyAndDecrypt(sess[n].cipher, last'.msg).err

\* C32: an id is in the seen-set of a node only if the node made the envelope
\* or an envelope with the id was delivered to its session, so that an
\* envelope that passes verification and whose id was not delivered before is
\* delivered, whatever was refused before it.
C32_RejectedIdFree ==
    /\ [](\A n \in DOMAIN sess :
            \A id \in sess[n].seen : id \in sess[n].delivered \/ id[1] = n)
    /\ [][\A n \in DOMAIN sess :
            (ValidRead(n) /\ last'.msg.id \notin sess[n].delivered) =>
                last'.spawn # <<>>]_vars

\* a join that passes verification was dropped as a duplicate of an envelope
\* that had been refused
C32_ValidDropped ==
    /\ last.op = "recv" /\ last.known /\ last.msg.kind = "join"
    /\ last.src # Outsider
    /\ last.spawn = <<>>
    /\ last.msg.id \notin sess[last.node].delivered
    /\ ~verifyAndDecrypt(sess[last.node].cipher, last.msg).err

----------------------------------------------------------------------------
(* How a member comes to be Active *)

\* the step made the member with key k Active at n
Activated(n, k) ==
    /\ k \in DOMAIN sess'[n].members
    /\ k # sess'[n].localAddr
    /\ sess'[n].members[k].status = "Active"
    /\ ~(k \in DOMAIN sess[n].members /\ sess[n].members[k].status = "Active")

\* the step wrote a datagram to the address
WroteTo(k) == \E d \in Range(last'.sent) : d.dst = k

\* the step handled an envelope that came from the address
HeardFrom(k) == last'.op = "handle" /\ canonicalNetAddr(last'.src) = k

\* the step handled a join whose digest advertises the address as its member
AdvertisedIn(k) ==
    /\ last'.op = "handle" /\ last'.msg.kind = "join"
    /\ \E payload \in {UnmarshalJoin(TrimSpace(last'.msg.body))} :
          /\ payload.ok
          /\ advertised(payload, last'.src, last'.msg.from).addr = k

\* C33: a member becomes Active only in a step that writes a datagram to its
\* address, handles an envelope delivered from its address, or processes a
\* join that advertises it; an address that a payload only lists among its
\* peers is not made Active by that.
C33_ActiveOnContact ==
    [][\A n \in DOMAIN sess :
          last'.node = n =>
              \A k \in DOMAIN sess'[n].members :
                  Activated(n, k) => WroteTo(k) \/ HeardFrom(k) \/ AdvertisedIn(k)]_vars

\* a peers payload listed an address that the node has never written to nor
\* heard from, and the address is Active
C33_ListedActive ==
    /\ last.op = "handle" /\ last.msg.kind = "peers"
    /\ \E h \in Range(last.hinted) :
          /\ h # canonicalNetAddr(last.src)
          /\ h \in DOMAIN sess[last.node].members
          /\ sess[last.node].members[h].status = "Active"
          /\ ~\E d \in Range(last.sent) : d.dst = h

----------------------------------------------------------------------------
(* The names of the members *)

\* C34: the name recorded for a member is empty or the display name of the
\* node at that address; the handler of an envelope that the node at the
\* address only forwarded does not put the name of the original sender there.
C34_NamesOwn ==
    \A n \in DOMAIN sess : \A m \in Nodes :
        Addr(m) \in DOMAIN sess[n].members =>
            sess[n].members[Addr(m)].name \in {"", NameOf(m)}

\* the handler took an envelope that its source forwarded for another node,
\* and the source now carries the name of that node
C34_ForwarderRenamed ==
    /\ last.op = "handle" /\ last.msg.kind = "chat"
    /\ last.src # Addr(last.msg.id[1])
    /\ last.src \in DOMAIN sess[last.node].members
    /\ sess[last.node].members[last.src].name = NameOf(last.msg.id[1])

----------------------------------------------------------------------------
(* Leave envelopes with and without a sender name *)

WaveId(k) == <<"W", k>>

\* the leaves of the outsider sent so far: in flight, or read by a node
Waved ==
    { k \in 1..MaxWaves :
        \/ \E d \in DOMAIN net : Unmarshal(d.data).msg.id = WaveId(k)
        \/ \E n \in DOMAIN sess : WaveId(k) \in sess[n].seen }

\* the outsider writes a leave envelope, with or without a sender name, to
\* the socket of n
Wave(n) ==
    /\ n \in DOMAIN sess
    /\ Cardinality(Waved) < MaxWaves
    /\ \E from \in {"", "eve"} :
          \E d \in {Datagram(Outsider, sess[n].conn,
                               Marshal(Message(WaveId(Cardinality(Waved) + 1),
                                               from, "leave", EmptyStr)))} :
              /\ net' = AddAll(net, <<d>>)
              /\ last' = [op |-> "wave", node |-> n, msg |-> Unmarshal(d.data).msg,
                          src |-> d.src, raw |-> d.data, known |-> FALSE,
                          sent |-> <<>>, emitted |-> <<>>, hinted |-> <<>>,
                          spawn |-> <<>>, failed |-> <<>>]
    /\ UNCHANGED <<sess, tasks, chats>>

WaveNext == \E n \in Nodes : Start(n) \/ Recv(n) \/ Handle(n) \/ Wave(n)

\* the two-node deployments on sockets that an outsider sends leaves to
WaveSpec == PairInit /\ [][WaveNext]_vars

\* the step of n handled a leave envelope
LeaveTaken(n) == last'.node = n /\ last'.op = "handle" /\ last'.msg.kind = "leave"

\* the key of the source of the envelope that the step handled
SourceKey == canonicalNetAddr(last'.src)

\* the step showed the envelope as it was delivered and wrote its bytes to
\* every member that is Active after the step, the source excepted
ShownAndForwarded(n) ==
    /\ last'.emitted = <<last'.msg>>
    /\ \A d \in Range(last'.sent) : d.data = last'.raw
    /\ { d.dst : d \in Range(last'.sent) }
         = { sess'[n].members[k].endpoint :
               k \in { x \in DOMAIN sess'[n].members :
                         /\ sess'[n].members[x].status = "Active"
                         /\ x # sess'[n].localAddr /\ x # SourceKey } }

\* C35: the handler of a leave with a sender name erases the member of the
\* source address and changes no other member, shows the envelope and forwards
\* it to the members that are Active then; the source is no member after the
\* step. The handler of a leave without a sender name makes the source Active,
\* and shows and forwards the envelope in the same way.
C35_LeaveErases ==
    [][\A n \in DOMAIN sess :
          LeaveTaken(n) =>
              /\ ShownAndForwarded(n)
              /\ IF last'.msg.from # ""
                 THEN /\ SourceKey \notin DOMAIN sess'[n].members
                      /\ \A k \in DOMAIN sess[n].members \ {SourceKey} :
                            /\ k \in DOMAIN sess'[n].members
                            /\ sess'[n].members[k] = sess[n].members[k]
                 ELSE /\ SourceKey \in DOMAIN sess'[n].members
                      /\ sess'[n].members[SourceKey].status = "Active"]_vars

\* an outsider that a leave without a name had made Active was erased by its
\* leave with a name, and the leave went on to the other node
C35_Witness ==
    /\ last.op = "handle" /\ last.msg.kind = "leave" /\ last.msg.from = "eve"
    /\ last.msg.id = WaveId(2)
    /\ canonicalNetAddr(last.src) \notin DOMAIN sess[last.node].members
    /\ last.sent # <<>>
    /\ \E n \in DOMAIN sess : WaveId(1) \in sess[n].delivered

----------------------------------------------------------------------------
(* Start and the bootstrap peers *)

\* C bootstraps from A and from B, in this order
OrderCfg == [n \in {"A", "B", "C"} |->
               CASE n = "A" -> Config(n, NoKey, <<>>)
                 [] n = "B" -> Config(n, NoKey, <<"A">>)
                 [] OTHER   -> Config(n, NoKey, <<"A", "B">>)]

\* the addresses that cannot be written to: none, one, or both of A and B
OrderLosses == {{}, {Addr("A")}, {Addr("B")}, {Addr("A"), Addr("B")}}

BootNext == \E n \in Nodes : Start(n) \/ Recv(n) \/ Handle(n)

\* three nodes of which the last has two bootstrap peers
BootSpec == InitFrom({OrderCfg}, OrderLosses) /\ [][BootNext]_vars

\* the elements of a sequence of addresses that can, or cannot, be written to
RECURSIVE Reachable(_, _, _)
Reachable(s, addrs, wanted) ==
    IF addrs = <<>> THEN <<>>
    ELSE IF (Head(addrs) \notin s.unreach) = wanted
    THEN <<Head(addrs)>> \o Reachable(s, Tail(addrs), wanted)
    ELSE Reachable(s, Tail(addrs), wanted)

\* the notices of failed bootstrap joins among the events of the step
BootNotices ==
    { i \in DOMAIN last'.emitted :
        last'.emitted[i] = Message(NoId, "", "system", Text("bootstrap failed")) }

\* C36: Start goes through the bootstrap peers in list order and writes each
\* a direct join; a peer whose write succeeded is Active afterwards, a peer
\* whose write failed is reported by a notice and left Pending without
\* endpoint; the join is prepared once more for the broadcast exactly when no
\* direct write succeeded.
C36_StartOrder ==
    [][\A n \in DOMAIN sess :
          (last'.node = n /\ last'.op = "start") =>
              \E ok \in {Reachable(sess[n], sess[n].bootstrap, TRUE)},
                 ko \in {Reachable(sess[n], sess[n].bootstrap, FALSE)} :
                  /\ [i \in DOMAIN last'.sent |-> last'.sent[i].dst] = ok
                  /\ \A d \in Range(last'.sent) : Unmarshal(d.data).msg.kind = "join"
                  /\ last'.failed = ko
                  /\ Cardinality(BootNotices) = Len(ko)
                  /\ \A k \in Range(ok) :
                        /\ sess'[n].members[k].status = "Active"
                        /\ sess'[n].members[k].endpoint = k
                  /\ \A k \in Range(ko) :
                        /\ sess'[n].members[k].status = "Pending"
                        /\ sess'[n].members[k].endpoint = NoAddr
                  /\ sess'[n].idc = sess[n].idc + Len(sess[n].bootstrap)
                                      + (IF ok = <<>> THEN 1 ELSE 0)]_vars

\* Start of the node with two bootstrap peers: the write to the first failed
\* and the write to the second succeeded
C36_Witness ==
    /\ last.op = "start" /\ last.node = "C"
    /\ last.failed = <<Addr("A")>>
    /\ Len(last.sent) = 1 /\ last.sent[1].dst = Addr("B")
    /\ sess["C"].members[Addr("A")].status = "Pending"
    /\ sess["C"].members[Addr("B")].status = "Active"

\* Start of the node with two bootstrap peers wrote to both, in list order
C36_InOrder ==
    /\ last.op = "start" /\ last.node = "C"
    /\ Len(last.sent) = 2
    /\ last.sent[1].dst = Addr("A") /\ last.sent[2].dst = Addr("B")

----------------------------------------------------------------------------
(* Termination of gossip *)

\* the number of nodes of the deployment
MeshSize == Cardinality(DOMAIN sess)

\* the number of datagrams carrying the envelope id that node n has written
WrittenBy(n, id) ==
    IF id \in DOMAIN sess[n].wrote THEN sess[n].wrote[id] ELSE 0

RECURSIVE SumWritten(_, _)
SumWritten(nodes, id) ==
    IF nodes = {} THEN 0
    ELSE Only({ WrittenBy(n, id) + SumWritten(nodes \ {n}, id)
                : n \in {CHOOSE m \in nodes : TRUE} })

\* the number of datagrams carrying the envelope id that were ever written
Carried(id) == SumWritten(DOMAIN sess, id)

\* C37: gossip terminates. A node writes the datagrams carrying one envelope
\* id in a single step (its broadcast or its one forward), at most one to
\* each other node, so that a submitted chat is carried by at most N*(N-1)
\* datagrams in a deployment of N nodes; once the user input has ended the
\* network stays empty and no handler is pending.
C37_GossipTerminates ==
    /\ [][\A n \in DOMAIN sess : \A id \in DOMAIN sess'[n].wrote :
             (WrittenBy(n, id) # sess'[n].wrote[id]) => WrittenBy(n, id) = 0]_vars
    /\ [](\A n \in DOMAIN sess : \A id \in DOMAIN sess[n].wrote :
             sess[n].wrote[id] <= MeshSize - 1)
    /\ [](\A k \in DOMAIN chats : Carried(chats[k].id) <= MeshSize * (MeshSize - 1))
    /\ <>[]Quiet

\* a chat typed in a full mesh of three nodes was broadcast by its author and
\* forwarded by both other nodes, and nothing is left in flight
C37_Witness ==
    /\ Quiet
    /\ \E k \in DOMAIN chats :
          /\ chats[k].mesh
          /\ \A n \in Nodes : WrittenBy(n, chats[k].id) >= 1
          /\ Carried(chats[k].id) = 4

----------------------------------------------------------------------------
(* Rejections and error envelopes *)

\* the step read or handled a well-formed error envelope
OnError == /\ last'.op \in {"recv", "handle"}
           /\ Unmarshal(last'.raw).ok
           /\ last'.msg.kind = "error"

\* the step read an envelope that is new to node n and that the verification
\* of n refuses
Refusing(n) ==
    /\ last'.op = "recv" /\ last'.node = n
    /\ Unmarshal(last'.raw).ok
    /\ ~alreadySeen(sess[n], Unmarshal(last'.raw).msg.id)
    /\ \E v \in {verifyAndDecrypt(sess[n].cipher, Unmarshal(last'.raw).msg)} :
          v.err /\ v.reason # ""

\* C38: rejections do not ping-pong. Reading or handling an error envelope
\* writes no datagram at all; a read that refuses an envelope writes exactly
\* one datagram, an error envelope to the source, written once; and the
\* exchange between the two nodes comes to an end.
C38_NoPingPong ==
    /\ [][/\ OnError => last'.sent = <<>>
          /\ \A n \in DOMAIN sess :
                Refusing(n) =>
                    /\ Len(last'.sent) = 1
                    /\ last'.sent[1].dst = last'.src
                    /\ Unmarshal(last'.sent[1].data).msg.kind = "error"
                    /\ sess'[n].wrote[Unmarshal(last'.sent[1].data).msg.id] = 1]_vars
    /\ <>[]Quiet

\* a node whose cipher mode differs from that of its peer has handled the
\* error reply to its join, and nothing is in flight or pending
C38_Witness ==
    /\ last.op = "handle" /\ last.msg.kind = "error"
    /\ sess["A"].cipher # sess["B"].cipher
    /\ last.msg.id[1] # last.node
    /\ last.sent = <<>>
    /\ Quiet

----------------------------------------------------------------------------
(* Errors of the socket and the end of the read loop *)

\* SetReadDeadline on the socket of n returns an error at the head of a
\* round of the read loop
DeadlineError(n) ==
    /\ n \in DOMAIN sess
    /\ sess[n].started
    /\ ~sess[n].loopDone
    /\ sess[n].calls["loop"] = Idle
    /\ ReadErrors < MaxReadErrors
    /\ \E s \in {deadlineFailed(sess[n])} :
          Commit(n, s, "deadline", NoMsg, NoAddr, NoData, FALSE, net, {})
    /\ UNCHANGED chats

DeadlineNext ==
    \E n \in Nodes : \/ Start(n) \/ Submit(n) \/ Recv(n) \/ Handle(n)
                     \/ ReadError(n) \/ DeadlineError(n)

\* two nodes whose sockets can fail to read and to set the read deadline
DeadlineSpec == PairInit /\ [][DeadlineNext]_vars

\* C39: the read loop ends only after the stop signal was set: an error of
\* the socket, from the read or from setting the read deadline, that occurs
\* while the stop signal is not set leaves the loop reading.
C39_ExitOnlyAfterStop ==
    [][\A n \in DOMAIN sess :
          (/\ last'.node = n /\ last'.op \in {"readerr", "deadline"}
           /\ ~sess[n].closed)
          => ~sess'[n].loopDone]_vars

\* the read loop of a running node has ended on a failed SetReadDeadline and
\* a datagram addressed to the node is in flight
C39_Deaf ==
    /\ last.op = "deadline"
    /\ ~sess[last.node].closed /\ sess[last.node].loopDone
    /\ \E d \in DOMAIN net : Reads(sess[last.node].conn, d.dst)

\* a failed read of a running node left the loop reading
C39_ReadSurvived ==
    /\ last.op = "readerr"
    /\ ~sess[last.node].closed /\ ~sess[last.node].loopDone

----------------------------------------------------------------------------
(* The locality check and remote peers *)

\* the address of a host other than that of A and C
Remote == [ip |-> "10.0.0.2", port |-> Addr("A").port]

\* A listens on every interface; B runs on another host with the port of A
\* and bootstraps from A, as C does from the host of A
WildCfg ==
    [n \in {"A", "B", "C"} |->
       CASE n = "A" -> [name |-> NameOf(n),
                        listen |-> [ip |-> "0.0.0.0", port |-> Addr(n).port],
                        secret |-> NoKey, peers |-> <<>>]
         [] n = "B" -> [name |-> NameOf(n), listen |-> Remote,
                        secret |-> NoKey, peers |-> <<Addr("A")>>]
         [] OTHER   -> Config(n, NoKey, <<"A">>)]

WildSpec == InitOf({WildCfg}) /\ [][Next]_vars

\* the addresses from which the nodes other than n write
Others(n) == { SourceOf(sess[m].conn) : m \in DOMAIN sess \ {n} }

\* C40: the locality check has no false positives: no node takes the
\* endpoint of another node for a local address, and a node that handles the
\* join of another node holds the address it came from Active afterwards.
C40_NoFalseLocal ==
    /\ [](\A n \in DOMAIN sess : \A a \in Others(n) : ~isLocal(sess[n], a))
    /\ [][\A n \in DOMAIN sess :
            (/\ last'.op = "handle" /\ last'.node = n
             /\ last'.msg.kind = "join"
             /\ last'.src \in Others(n))
            => /\ last'.src \in DOMAIN sess'[n].members
               /\ sess'[n].members[last'.src].status = "Active"]_vars

\* A has handled the join of the remote B and does not hold it Active, while
\* B holds A Active, and nothing is in flight or pending
C40_ShutOut ==
    /\ Quiet
    /\ \E id \in sess["A"].delivered : id[1] = "B"
    /\ \A k \in DOMAIN sess["A"].members :
          sess["A"].members[k].addr = Remote => sess["A"].members[k].status # "Active"
    /\ Addr("A") \in DOMAIN sess["B"].members
    /\ sess["B"].members[Addr("A")].status = "Active"

\* A has handled the join of C, which uses another port, and holds it Active
C40_OtherPort ==
    /\ last.op = "handle" /\ last.node = "A" /\ last.msg.kind = "join"
    /\ last.src = Addr("C")
    /\ sess["A"].members[Addr("C")].status = "Active"

====
